---- MODULE Spec2Model ----
(***************************************************************************)
(* Event store of the event-sourcing platform: the in-memory engine        *)
(* (eventstore-backend-memory/src/store_memory.rs) and the relational      *)
(* engine (eventstore-backend-postgres/src/store_postgres.rs).             *)
(***************************************************************************)
EXTENDS Integers, Sequences, FiniteSets, TLC

\* ------------------------------------------------------------------ bounds

\* Appends are accepted by the model while the store holds at most this
\* many events (cap on the global nonce counter).
MaxGlobal == 3
\* Largest expected_aggregate_nonce a client sends.
MaxExpected == 2
\* Largest batch a client sends.
MaxBatch == 2

\* ------------------------------------------------------------------ values

Tenants == {"t1", "t2"}
\* aggregate ids are strings; they are modelled as character sequences so
\* that starts_with is computed
AggOrder == <<"O", "1">>
AggPayment == <<"P", "1">>
AggIds == {AggOrder, AggPayment}
Prefixes == {<<>>, <<"O">>}
AggregateTypeOf(a) == IF a = AggOrder THEN "Order" ELSE "Payment"

Appenders == {"a1", "a2"}
None == "none"

DEFAULT_CONTENT_TYPE == "application/octet-stream"

\* str::starts_with
StartsWith(s, prefix) ==
    /\ Len(prefix) <= Len(s)
    /\ \A i \in 1..Len(prefix) : s[i] = prefix[i]

\* StreamKey::new
StreamKey(tenant_id, aggregate_id) == <<tenant_id, aggregate_id>>
\* IdempotencyKey::new
IdempotencyKey(tenant_id, aggregate_id, key) == <<tenant_id, aggregate_id, key>>

\* EventData with its EventMetadata (has_meta = FALSE models meta: None)
EventData(id, t, a, ty, n, ct, payload) ==
    [has_meta |-> TRUE, event_id |-> id, tenant_id |-> t, aggregate_id |-> a,
     aggregate_type |-> ty, aggregate_nonce |-> n, content_type |-> ct,
     recorded_time_unix_ms |-> 0, global_nonce |-> 0, payload |-> payload]

\* ------------------------------------------------------------------ errors

NoDetail ==
    [present |-> FALSE, tenant_id |-> "", aggregate_id |-> <<>>,
     actual_last_aggregate_nonce |-> 0, actual_last_global_nonce |-> 0]
ConcurrencyErrorDetail(t, a, n, g) ==
    [present |-> TRUE, tenant_id |-> t, aggregate_id |-> a,
     actual_last_aggregate_nonce |-> n, actual_last_global_nonce |-> g]
AppendResponse(lg, la) == [last_global_nonce |-> lg, last_aggregate_nonce |-> la]
NoResponse == AppendResponse(0, 0)

\* a slip: the response of a commit is lost and an error is returned instead
Ok_lost(resp) == [kind |-> "Internal", response |-> resp, detail |-> NoDetail]
\* Result<AppendResponse, StoreError>
Ok(resp) == [kind |-> "Ok", response |-> resp, detail |-> NoDetail]
Err(kind) == [kind |-> kind, response |-> NoResponse, detail |-> NoDetail]
Concurrency(detail) == [kind |-> "Concurrency", response |-> NoResponse, detail |-> detail]
Pending == [kind |-> "Pending", response |-> NoResponse, detail |-> NoDetail]

\* ------------------------------------------------------------------ pure functions

\* batch_fingerprint: the hash of the encoded events with the server-assigned
\* fields zeroed; events without metadata are left out.  The hash is modelled
\* as the (collision-free) sequence of what is hashed.
RECURSIVE batch_fingerprint(_)
batch_fingerprint(events) ==
    IF events = <<>> THEN <<>>
    ELSE LET ev == Head(events)
             rest == batch_fingerprint(Tail(events))
         IN  IF ev.has_meta
             THEN <<[ev EXCEPT !.recorded_time_unix_ms = 0, !.global_nonce = 0]>> \o rest
             ELSE rest

\* a slip: the fields are checked but the empty ones are left empty
normalize_event_keep_empty(event, tenant_id, aggregate_id, aggregate_type) ==
    IF ~event.has_meta THEN [ok |-> FALSE, err |-> "Invalid", event |-> event]
    ELSE IF event.aggregate_nonce = 0 THEN [ok |-> FALSE, err |-> "Invalid", event |-> event]
    ELSE IF event.event_id = <<>> THEN [ok |-> FALSE, err |-> "Invalid", event |-> event]
    ELSE IF event.aggregate_id # <<>> /\ event.aggregate_id # aggregate_id
         THEN [ok |-> FALSE, err |-> "Invalid", event |-> event]
    ELSE IF event.aggregate_type # "" /\ event.aggregate_type # aggregate_type
         THEN [ok |-> FALSE, err |-> "Invalid", event |-> event]
    ELSE IF event.tenant_id # "" /\ event.tenant_id # tenant_id
         THEN [ok |-> FALSE, err |-> "PermissionDenied", event |-> event]
    ELSE [ok |-> TRUE, err |-> "", event |-> event]
\* a slip: every field of the event is filled from the request, whatever it
\* held
normalize_event_fill_only(event, tenant_id, aggregate_id, aggregate_type) ==
    IF ~event.has_meta THEN [ok |-> FALSE, err |-> "Invalid", event |-> event]
    ELSE [ok |-> TRUE, err |-> "",
          event |-> [event EXCEPT
                        !.aggregate_id = aggregate_id,
                        !.aggregate_type = aggregate_type,
                        !.tenant_id = tenant_id,
                        !.content_type = IF @ = "" THEN DEFAULT_CONTENT_TYPE ELSE @]]
\* normalize_event: Ok(event) or the error kind
normalize_event(event, tenant_id, aggregate_id, aggregate_type) ==
    IF ~event.has_meta THEN [ok |-> FALSE, err |-> "Invalid", event |-> event]
    ELSE IF event.aggregate_nonce = 0 THEN [ok |-> FALSE, err |-> "Invalid", event |-> event]
    ELSE IF event.event_id = <<>> THEN [ok |-> FALSE, err |-> "Invalid", event |-> event]
    ELSE IF event.aggregate_id # <<>> /\ event.aggregate_id # aggregate_id
         THEN [ok |-> FALSE, err |-> "Invalid", event |-> event]
    ELSE IF event.aggregate_type # "" /\ event.aggregate_type # aggregate_type
         THEN [ok |-> FALSE, err |-> "Invalid", event |-> event]
    ELSE IF event.tenant_id # "" /\ event.tenant_id # tenant_id
         THEN [ok |-> FALSE, err |-> "PermissionDenied", event |-> event]
    ELSE [ok |-> TRUE, err |-> "",
          event |-> [event EXCEPT
                        !.aggregate_id = aggregate_id,
                        !.aggregate_type = aggregate_type,
                        !.tenant_id = tenant_id,
                        !.content_type = IF @ = "" THEN DEFAULT_CONTENT_TYPE ELSE @]]

\* the loop of append that normalizes the events in order and stops at the
\* first error
RECURSIVE normalize_events(_, _, _, _)
normalize_events(events, tenant_id, aggregate_id, aggregate_type) ==
    IF events = <<>> THEN [ok |-> TRUE, err |-> "", events |-> <<>>]
    ELSE LET r == normalize_event(Head(events), tenant_id, aggregate_id, aggregate_type)
         IN  IF ~r.ok THEN [ok |-> FALSE, err |-> r.err, events |-> <<>>]
             ELSE LET rest == normalize_events(Tail(events), tenant_id, aggregate_id,
                                               aggregate_type)
                  IN  IF ~rest.ok THEN rest
                      ELSE [ok |-> TRUE, err |-> "", events |-> <<r.event>> \o rest.events]

\* the request checks of append that come before normalization
request_error(req) ==
    IF req.tenant_id = "" THEN "Unauthenticated"
    ELSE IF req.aggregate_id = <<>> THEN "Invalid"
    ELSE IF req.aggregate_type = "" THEN "Invalid"
    ELSE IF req.events = <<>> THEN "Invalid"
    ELSE ""

\* stream.last() nonces: 0 for an aggregate without events
LastAggregateNonce(stream) ==
    IF stream = <<>> THEN 0 ELSE stream[Len(stream)].aggregate_nonce
LastGlobalNonce(stream) ==
    IF stream = <<>> THEN 0 ELSE stream[Len(stream)].global_nonce

\* a slip: expected 0 taken as "no expectation"
expected_ok_zero_any(expected_head, current_last_nonce) ==
    expected_head = 0 \/ current_last_nonce = expected_head
\* expected_ok of append
expected_ok(expected_head, current_last_nonce) ==
    IF expected_head = 0 THEN current_last_nonce = 0
    ELSE current_last_nonce = expected_head

\* a slip: only the first event is compared with the last nonce
nonces_ok_first_only(events, current_last_nonce) ==
    events[1].aggregate_nonce = current_last_nonce + 1
\* a slip: the events are compared with each other but not with the last nonce
nonces_ok_among_themselves(events, current_last_nonce) ==
    \A i \in 2..Len(events) : events[i].aggregate_nonce = events[i - 1].aggregate_nonce + 1
\* the nonce loop of append: every event i (0-based) carries last+i+1
nonces_ok(events, current_last_nonce) ==
    \A i \in 1..Len(events) : events[i].aggregate_nonce = current_last_nonce + (i - 1) + 1


\* ------------------------------------------------------------------ client inputs

StreamKeys ==
    {StreamKey("t1", AggOrder), StreamKey("t1", AggPayment), StreamKey("t2", AggOrder)}
IdempotencyKeys == {"", "k"}
IdempotencyKeysOfStore ==
    {IdempotencyKey(k[1], k[2], key) : k \in StreamKeys, key \in IdempotencyKeys \ {""}}
PayloadOf(p) == IF p = "a1" THEN "x" ELSE "y"
\* client-chosen unique identifier
EventIdOf(p, a, n) == <<p, a[1], n>>

ClientEvent(p, t, a, n) ==
    EventData(EventIdOf(p, a, n), t, a, AggregateTypeOf(a), n, DEFAULT_CONTENT_TYPE,
              PayloadOf(p))

AppendRequest(t, a, ty, expected, key, events) ==
    [tenant_id |-> t, aggregate_id |-> a, aggregate_type |-> ty,
     expected_aggregate_nonce |-> expected, idempotency_key |-> key, events |-> events]
NoRequest == AppendRequest("", <<>>, "", 0, "", <<>>)

\* well-formed requests: a batch of len events numbered from first
RECURSIVE Batch(_, _, _, _, _)
Batch(p, t, a, first, len) ==
    IF len = 0 THEN <<>>
    ELSE <<ClientEvent(p, t, a, first)>> \o Batch(p, t, a, first + 1, len - 1)
Requests(p, keys, expected, ikeys, lens) ==
    {AppendRequest(k[1], k[2], AggregateTypeOf(k[2]), e, key, Batch(p, k[1], k[2], e + 1, len)) :
        k \in keys, e \in expected, key \in ikeys, len \in lens}
WellFormedRequests(p) ==
    Requests(p, StreamKeys, 0..MaxExpected, {""}, 1..MaxBatch)
        \cup Requests(p, {StreamKey("t1", AggOrder)}, 0..MaxExpected, {"k"}, 1..MaxBatch)
\* requests whose first event does not carry last+1, and requests whose
\* second event does not follow the first
WrongNonceRequests(p) ==
    {AppendRequest("t1", AggOrder, "Order", e, "k", Batch(p, "t1", AggOrder, e + 2, 1)) :
        e \in 0..1}
    \cup {AppendRequest("t1", AggOrder, "Order", e, "",
                <<ClientEvent(p, "t1", AggOrder, e + 1), ClientEvent(p, "t1", AggOrder, e + 3)>>) :
            e \in 0..1}
\* requests that fail the request checks or normalization
MalformedRequests(p) ==
    {AppendRequest("", AggOrder, "Order", 0, "", Batch(p, "", AggOrder, 1, 1)),
     AppendRequest("t1", AggOrder, "Order", 0, "k", <<>>),
     AppendRequest("t1", AggOrder, "Order", 0, "k", <<ClientEvent(p, "t1", AggOrder, 0)>>),
     AppendRequest("t1", AggOrder, "Order", 0, "k", <<ClientEvent(p, "t2", AggOrder, 1)>>),
     AppendRequest("t1", <<>>, "Order", 0, "", Batch(p, "t1", AggOrder, 1, 1)),
     AppendRequest("t1", AggOrder, "", 0, "", Batch(p, "t1", AggOrder, 1, 1)),
     AppendRequest("t1", AggOrder, "Order", 0, "",
        <<[ClientEvent(p, "t1", AggOrder, 1) EXCEPT !.has_meta = FALSE]>>),
     AppendRequest("t1", AggOrder, "Order", 0, "",
        <<[ClientEvent(p, "t1", AggOrder, 1) EXCEPT !.event_id = <<>>]>>),
     AppendRequest("t1", AggOrder, "Order", 0, "", <<ClientEvent(p, "t1", AggPayment, 1)>>),
     AppendRequest("t1", AggOrder, "Order", 0, "",
        <<[ClientEvent(p, "t1", AggOrder, 1) EXCEPT !.aggregate_type = "Payment"]>>),
     AppendRequest("t1", AggOrder, "Order", 0, "",
        <<ClientEvent(p, "t1", AggOrder, 1), ClientEvent(p, "t2", AggOrder, 2)>>)}
AppendRequests(p) == WellFormedRequests(p) \cup WrongNonceRequests(p) \cup MalformedRequests(p)

\* ------------------------------------------------------------------ state

VARIABLES
    backend,            \* the engine resolve_backend() selected: "memory" or "postgres"
    \* PostgresStore: the committed rows of the three tables, the sequence
    \* behind events.global_nonce, the row locks on aggregates
    pg_events,
    pg_aggregates,
    pg_idempotency,
    pg_seq,
    pg_row_lock,
    \* the open transaction of each append: the rows it inserted, and the
    \* current_last_nonce / current_last_global it read
    tx_events,
    tx_last,
    \* InMemoryStore
    streams,            \* HashMap<StreamKey, Vec<EventData>>
    all,                \* Vec<EventData>: the global log
    next_global,        \* the next global nonce
    idempotency,        \* HashMap<IdempotencyKey, StoredBatch>
    streams_lock,       \* the holder of streams.write()
    idempotency_lock,   \* the holder of idempotency.write()
    \* one append call per appender at a time
    pc,                 \* where the call stands
    req,                \* its request
    res,                \* its result, once pc is "return"
    assigned_events,    \* its normalized events, with the assigned nonces once committed
    unsent,             \* how many of them are still to be sent to tx
    \* one subscription per subscriber
    sub_pc,             \* "none", "snapshot" (inside subscribe()), "open"
    sub_req,            \* its SubscribeRequest
    replay_items,       \* the snapshot of the global log taken by subscribe()
    replay_idx,         \* how many of them were emitted
    rx,                 \* the events its broadcast receiver holds, oldest first
    emitted,            \* the events the stream has yielded, in order
    cursor,             \* the polling cursor of the relational engine's stream
    \* the read_stream call that is returning
    rd

memVars == <<streams, all, next_global, idempotency, streams_lock, idempotency_lock>>
pgVars == <<pg_events, pg_aggregates, pg_idempotency, pg_seq, pg_row_lock, tx_events, tx_last>>
callVars == <<pc, req, res, assigned_events, unsent>>
subVars == <<sub_pc, sub_req, replay_items, replay_idx, rx, emitted, cursor>>

\* streams.get(&key).cloned().unwrap_or_default() and
\* streams.entry(key).or_default(): a key without entry and a key with an empty
\* Vec read alike, and both are the empty sequence here
StreamOf(key) == streams[key]

\* StoredBatch
StoredBatch(fingerprint, response) == [fingerprint |-> fingerprint, response |-> response]


\* ------------------------------------------------------------------ in-memory engine: append

\* a slip: a read that does not wait for the writer
rwlock_read_no_wait(holder) == TRUE
\* RwLock::read(): granted while no writer holds the lock
rwlock_read(holder) == holder = None
\* a slip: a guard that is kept at the return
drop_forgotten(guard) == guard
\* drop(guard), and the drop of the guards of a call that returns
drop(guard) == None
\* the holder of all.write() and next_global.write(): the append that is in
\* its commit loop
all_lock == IF \E p \in Appenders : pc[p] = "commit_loop"
            THEN CHOOSE p \in Appenders : pc[p] = "commit_loop"
            ELSE None

\* now_unix_ms(): the wall clock, any of these readings
NowValues == {1}

\* the call returns with its result; the locals are dropped
Return(p, result) ==
    /\ pc' = [pc EXCEPT ![p] = "return"]
    /\ res' = [res EXCEPT ![p] = result]
    /\ assigned_events' = [assigned_events EXCEPT ![p] = <<>>]
    /\ unsent' = [unsent EXCEPT ![p] = 0]

\* append, lines 164-247: request checks, normalization, streams.write(), the
\* concurrency check and the nonce check.  An error returns and drops the lock.
AppendCheck(p, r) ==
    /\ UNCHANGED <<backend, pgVars>>
    /\ pc[p] = "idle"
    /\ UNCHANGED <<subVars, rd>>
    /\ req' = [req EXCEPT ![p] = r]
    /\ LET norm == normalize_events(r.events, r.tenant_id, r.aggregate_id, r.aggregate_type)
           key == StreamKey(r.tenant_id, r.aggregate_id)
           stream == StreamOf(key)
           current_last_nonce == LastAggregateNonce(stream)
           current_last_global == LastGlobalNonce(stream)
       IN  IF request_error(r) # ""
           THEN /\ Return(p, Err(request_error(r)))
                /\ UNCHANGED memVars
           ELSE IF ~norm.ok
           THEN /\ Return(p, Err(norm.err))
                /\ UNCHANGED memVars
           ELSE /\ streams_lock = None
                /\ UNCHANGED <<streams, all, next_global, idempotency, idempotency_lock>>
                /\ IF ~expected_ok(r.expected_aggregate_nonce, current_last_nonce)
                   THEN /\ Return(p, Concurrency(ConcurrencyErrorDetail(
                                r.tenant_id, r.aggregate_id,
                                current_last_nonce, current_last_global)))
                        /\ UNCHANGED streams_lock
                   ELSE IF ~nonces_ok(norm.events, current_last_nonce)
                   THEN /\ Return(p, Err("Invalid"))
                        /\ UNCHANGED streams_lock
                   ELSE /\ next_global + Len(norm.events) - 1 <= MaxGlobal
                        /\ streams_lock' = p
                        /\ pc' = [pc EXCEPT ![p] =
                                    IF r.idempotency_key # "" THEN "idempotency" ELSE "commit"]
                        /\ res' = [res EXCEPT ![p] = Pending]
                        /\ assigned_events' = [assigned_events EXCEPT ![p] = norm.events]
                        /\ UNCHANGED unsent

\* append, lines 249-260: idempotency.write() and the lookup of the key
AppendIdempotency(p) ==
    /\ UNCHANGED <<backend, pgVars>>
    /\ pc[p] = "idempotency"
    /\ UNCHANGED <<subVars, rd>>
    /\ idempotency_lock = None
    /\ LET r == req[p]
           key == IdempotencyKey(r.tenant_id, r.aggregate_id, r.idempotency_key)
           fingerprint == batch_fingerprint(assigned_events[p])
       IN  IF key \in DOMAIN idempotency
           THEN /\ Return(p, IF idempotency[key].fingerprint = fingerprint
                             THEN Ok(idempotency[key].response)
                             ELSE Err("AlreadyExists"))
                /\ streams_lock' = drop(streams_lock)
                /\ UNCHANGED <<streams, all, next_global, idempotency, idempotency_lock>>
           ELSE /\ idempotency_lock' = p
                /\ pc' = [pc EXCEPT ![p] = "commit"]
                /\ UNCHANGED <<streams, all, next_global, idempotency, streams_lock,
                               res, assigned_events, unsent>>
    /\ UNCHANGED req

\* a slip: the Vec is replaced by the new events
push_over(vec, evs) == evs
\* Vec::push of each assigned event, in order
push(vec, evs) == vec \o evs

\* the commit loop of append: event i gets the recorded time and the next
\* global nonce
RECURSIVE Assign(_, _, _)
Assign(evs, first_global, now) ==
    IF evs = <<>> THEN <<>>
    ELSE <<[Head(evs) EXCEPT !.recorded_time_unix_ms = now, !.global_nonce = first_global]>>
            \o Assign(Tail(evs), first_global + 1, now)

\* append, lines 262-290: all.write(), next_global.write(), the commit loop,
\* and the release of next_global, all and streams
AppendCommit(p) ==
    /\ UNCHANGED <<backend, pgVars>>
    /\ pc[p] = "commit"
    /\ UNCHANGED <<subVars, rd>>
    /\ \E now \in NowValues :
        LET r == req[p]
            key == StreamKey(r.tenant_id, r.aggregate_id)
            assigned == Assign(assigned_events[p], next_global, now)
        IN  /\ streams' = [streams EXCEPT ![key] = push(@, assigned)]
            /\ all' = push(all, assigned)
            /\ next_global' = next_global + Len(assigned)
            /\ assigned_events' = [assigned_events EXCEPT ![p] = assigned]
            /\ unsent' = [unsent EXCEPT ![p] = Len(assigned)]
            /\ res' = [res EXCEPT ![p] =
                          Ok(AppendResponse(assigned[Len(assigned)].global_nonce,
                                            assigned[Len(assigned)].aggregate_nonce))]
    /\ streams_lock' = drop(streams_lock)
    /\ pc' = [pc EXCEPT ![p] = IF req[p].idempotency_key # "" THEN "record" ELSE "publish"]
    /\ UNCHANGED <<idempotency, idempotency_lock, req>>

\* append, lines 302-312: the idempotency record is written and the lock dropped
AppendRecord(p) ==
    /\ UNCHANGED <<backend, pgVars>>
    /\ pc[p] = "record"
    /\ UNCHANGED <<subVars, rd>>
    /\ LET r == req[p]
           key == IdempotencyKey(r.tenant_id, r.aggregate_id, r.idempotency_key)
           fingerprint == batch_fingerprint(assigned_events[p])
           stored == StoredBatch(fingerprint, res[p].response)
       IN  idempotency' = IF key \in DOMAIN idempotency
                          THEN [idempotency EXCEPT ![key] = stored]
                          ELSE idempotency @@ (key :> stored)
    /\ idempotency_lock' = drop(idempotency_lock)
    /\ pc' = [pc EXCEPT ![p] = "publish"]
    /\ UNCHANGED <<streams, all, next_global, streams_lock, req, res, assigned_events, unsent>>


\* broadcast::channel(1024): the channel retains this many events (scaled).
Capacity == 2
\* what a receiver that fell behind gets before the oldest retained event:
\* Err(RecvError::Lagged)
Lagged == [lagged |-> TRUE]
IsLagged(item) == "lagged" \in DOMAIN item
\* the items a receiver has still to receive, after one more event is sent:
\* when the channel already retains Capacity events for it, the oldest one is
\* lost to it and it will first receive Lagged
Deliver(queue, ev) ==
    LET retained == IF queue # <<>> /\ IsLagged(Head(queue)) THEN Tail(queue) ELSE queue
    IN  IF Len(retained) < Capacity THEN Append(queue, ev)
        ELSE <<Lagged>> \o Tail(retained) \o <<ev>>

\* a slip: the send waits until every receiver has room
Send_when_room(ev) ==
    /\ \A s \in DOMAIN rx : sub_pc[s] = "open" => Len(rx[s]) < Capacity
    /\ rx' = [s \in DOMAIN rx |-> IF sub_pc[s] = "open" THEN Append(rx[s], ev) ELSE rx[s]]
\* tx.send(ev): every receiver that exists gets the event; without a receiver
\* the send fails and the error is ignored
RECURSIVE SendTo(_, _, _)
SendTo(queues, receivers, ev) ==
    IF receivers = {} THEN queues
    ELSE LET s == CHOOSE x \in receivers : TRUE
         IN  SendTo([queues EXCEPT ![s] = Deliver(@, ev)], receivers \ {s}, ev)
Send(ev) == rx' = SendTo(rx, {s \in DOMAIN rx : sub_pc[s] = "open"}, ev)

\* append, lines 314-318: one tx.send per assigned event, no lock held; the
\* call returns after the last one
AppendPublish(p) ==
    /\ UNCHANGED <<backend, pgVars>>
    /\ pc[p] = "publish"
    /\ unsent[p] > 0
    /\ Send(assigned_events[p][Len(assigned_events[p]) - unsent[p] + 1])
    /\ IF unsent[p] = 1
       THEN Return(p, res[p])
       ELSE /\ unsent' = [unsent EXCEPT ![p] = @ - 1]
            /\ UNCHANGED <<pc, res, assigned_events>>
    /\ UNCHANGED <<memVars, req, sub_pc, sub_req, replay_items, replay_idx, emitted, cursor, rd>>

\* the caller takes the result of append
AppendReturn(p) ==
    /\ UNCHANGED <<backend, pgVars>>
    /\ pc[p] = "return"
    /\ pc' = [pc EXCEPT ![p] = "idle"]
    /\ req' = [req EXCEPT ![p] = NoRequest]
    /\ res' = [res EXCEPT ![p] = Pending]
    /\ UNCHANGED <<memVars, assigned_events, unsent, subVars, rd>>

\* ------------------------------------------------------------------ in-memory engine: the locks of append

\* append, lines 262-264: all.write() and next_global.write(); the local
\* assigned_events is empty (unsent counts its events)
AppendLockAll(p) ==
    /\ UNCHANGED <<backend, pgVars>>
    /\ pc[p] = "commit"
    /\ all_lock = None
    /\ pc' = [pc EXCEPT ![p] = "commit_loop"]
    /\ unsent' = [unsent EXCEPT ![p] = 0]
    /\ UNCHANGED <<memVars, req, res, assigned_events, subVars, rd>>

\* append, lines 266-286: one turn of the commit loop, under streams.write(),
\* all.write() and next_global.write()
AppendPushOne(p) ==
    /\ UNCHANGED <<backend, pgVars>>
    /\ pc[p] = "commit_loop"
    /\ unsent[p] < Len(assigned_events[p])
    /\ \E now \in NowValues :
        LET r == req[p]
            key == StreamKey(r.tenant_id, r.aggregate_id)
            assigned == Assign(<<assigned_events[p][unsent[p] + 1]>>, next_global, now)
        IN  /\ streams' = [streams EXCEPT ![key] = push(@, assigned)]
            /\ all' = push(all, assigned)
            /\ next_global' = next_global + 1
            /\ assigned_events' = [assigned_events EXCEPT ![p][unsent[p] + 1] = assigned[1]]
    /\ unsent' = [unsent EXCEPT ![p] = @ + 1]
    /\ UNCHANGED <<idempotency, streams_lock, idempotency_lock, pc, req, res, subVars, rd>>

\* append, lines 287-300: the loop is over; next_global, all and streams are
\* dropped and the response is built
AppendUnlock(p) ==
    /\ UNCHANGED <<backend, pgVars>>
    /\ pc[p] = "commit_loop"
    /\ unsent[p] = Len(assigned_events[p])
    /\ streams_lock' = drop(streams_lock)
    /\ res' = [res EXCEPT ![p] =
                  Ok(AppendResponse(assigned_events[p][unsent[p]].global_nonce,
                                    assigned_events[p][unsent[p]].aggregate_nonce))]
    /\ pc' = [pc EXCEPT ![p] = IF req[p].idempotency_key # "" THEN "record" ELSE "publish"]
    /\ UNCHANGED <<streams, all, next_global, idempotency, idempotency_lock,
                   req, assigned_events, unsent, subVars, rd>>

\* ------------------------------------------------------------------ in-memory engine: subscribe

Subscribers == {"s1"}

SubscribeRequest(t, prefix, from) ==
    [tenant_id |-> t, aggregate_id_prefix |-> prefix, from_global_nonce |-> from]

\* a slip: the filter without the tenant
keep_any_tenant(ev, tenant_id, prefix, from_global) ==
    /\ ev.has_meta
    /\ ev.global_nonce >= from_global
    /\ (prefix = <<>> \/ StartsWith(ev.aggregate_id, prefix))
\* the filter closure of subscribe, the same for the replay and the live part
keep(ev, tenant_id, prefix, from_global) ==
    /\ ev.has_meta
    /\ ev.tenant_id = tenant_id
    /\ ev.global_nonce >= from_global
    /\ (prefix = <<>> \/ StartsWith(ev.aggregate_id, prefix))

\* Iterator::filter over a Vec
RECURSIVE FilterSeq(_, _, _, _)
FilterSeq(evs, tenant_id, prefix, from_global) ==
    IF evs = <<>> THEN <<>>
    ELSE IF keep(Head(evs), tenant_id, prefix, from_global)
         THEN <<Head(evs)>> \o FilterSeq(Tail(evs), tenant_id, prefix, from_global)
         ELSE FilterSeq(Tail(evs), tenant_id, prefix, from_global)

\* subscribe, lines 419-439: replay_items are collected from all.read()
SubscribeSnapshot(s, sr) ==
    /\ UNCHANGED <<backend, pgVars>>
    /\ sub_pc[s] = "none"
    /\ sub_pc' = [sub_pc EXCEPT ![s] = "snapshot"]
    /\ sub_req' = [sub_req EXCEPT ![s] = sr]
    /\ replay_items' = [replay_items EXCEPT ![s] =
            FilterSeq(all, sr.tenant_id, sr.aggregate_id_prefix, sr.from_global_nonce)]
    /\ UNCHANGED <<memVars, callVars, replay_idx, rx, emitted, cursor, rd>>

\* subscribe, lines 441-465: rx = tx.subscribe(); the receiver sees what is
\* sent from now on; the chained stream is returned
SubscribeReceiver(s) ==
    /\ UNCHANGED <<backend, pgVars>>
    /\ sub_pc[s] = "snapshot"
    /\ sub_pc' = [sub_pc EXCEPT ![s] = "open"]
    /\ rx' = [rx EXCEPT ![s] = <<>>]
    /\ UNCHANGED <<memVars, callVars, sub_req, replay_items, replay_idx, emitted, cursor, rd>>

\* replay.chain(live), first part: the next replay item is yielded
EmitReplay(s) ==
    /\ UNCHANGED <<backend, pgVars>>
    /\ sub_pc[s] = "open"
    /\ replay_idx[s] < Len(replay_items[s])
    /\ emitted' = [emitted EXCEPT ![s] = Append(@, replay_items[s][replay_idx[s] + 1])]
    /\ replay_idx' = [replay_idx EXCEPT ![s] = @ + 1]
    /\ UNCHANGED <<memVars, callVars, sub_pc, sub_req, replay_items, rx, cursor, rd>>

\* replay.chain(live), second part: once the replay is exhausted the next
\* received event is yielded if the filter keeps it, and dropped otherwise;
\* Err(_) => None drops a Lagged
EmitLive(s) ==
    /\ UNCHANGED <<backend, pgVars>>
    /\ sub_pc[s] = "open"
    /\ replay_idx[s] = Len(replay_items[s])
    /\ rx[s] # <<>>
    /\ rx' = [rx EXCEPT ![s] = Tail(@)]
    /\ emitted' = [emitted EXCEPT ![s] =
            IF IsLagged(Head(rx[s])) THEN @
            ELSE IF keep(Head(rx[s]), sub_req[s].tenant_id, sub_req[s].aggregate_id_prefix,
                         sub_req[s].from_global_nonce)
            THEN Append(@, Head(rx[s])) ELSE @]
    /\ UNCHANGED <<memVars, callVars, sub_pc, sub_req, replay_items, replay_idx, cursor, rd>>


\* ------------------------------------------------------------------ in-memory engine: read_stream

ReadStreamRequest(t, a, from, max, forward) ==
    [tenant_id |-> t, aggregate_id |-> a, from_aggregate_nonce |-> from,
     max_count |-> max, forward |-> forward]
ReadStreamResponse(evs, is_end, next_from) ==
    [kind |-> "Ok", events |-> evs, is_end |-> is_end, next_from_aggregate_nonce |-> next_from]
ReadError(kind) ==
    [kind |-> kind, events |-> <<>>, is_end |-> FALSE, next_from_aggregate_nonce |-> 0]

\* the forward loop of read_stream from position i on
RECURSIVE ForwardPage(_, _, _, _, _)
ForwardPage(evs, i, page, start_nonce, max_count) ==
    IF i > Len(evs) THEN page
    ELSE LET pushed == IF evs[i].aggregate_nonce >= start_nonce
                       THEN Append(page, evs[i]) ELSE page
         IN  IF Len(pushed) >= max_count /\ max_count > 0 THEN pushed
             ELSE ForwardPage(evs, i + 1, pushed, start_nonce, max_count)

\* the backward loop of read_stream (events.iter().rev()) from position i down
RECURSIVE BackwardPage(_, _, _, _, _)
BackwardPage(evs, i, page, start_nonce, max_count) ==
    IF i < 1 THEN page
    ELSE LET pushed == IF evs[i].aggregate_nonce <= start_nonce
                       THEN Append(page, evs[i]) ELSE page
         IN  IF Len(pushed) >= max_count /\ max_count > 0 THEN pushed
             ELSE BackwardPage(evs, i - 1, pushed, start_nonce, max_count)

\* u64::saturating_sub(1)
SaturatingSub1(n) == IF n = 0 THEN 0 ELSE n - 1

\* InMemoryStore::read_stream
read_stream(rr) ==
    IF rr.tenant_id = "" THEN ReadError("Unauthenticated")
    ELSE IF rr.aggregate_id = <<>> THEN ReadError("Invalid")
    ELSE
    LET evs == StreamOf(StreamKey(rr.tenant_id, rr.aggregate_id))
        start_nonce == IF rr.from_aggregate_nonce <= 1 THEN 1 ELSE rr.from_aggregate_nonce
        page == IF rr.forward
                THEN ForwardPage(evs, 1, <<>>, start_nonce, rr.max_count)
                ELSE BackwardPage(evs, Len(evs), <<>>, start_nonce, rr.max_count)
        next_from == IF rr.forward
                     THEN IF page # <<>> THEN page[Len(page)].aggregate_nonce + 1
                          ELSE start_nonce
                     ELSE IF page # <<>> THEN SaturatingSub1(page[1].aggregate_nonce)
                          ELSE 0
        stream_end_nonce == LastAggregateNonce(evs)
        is_end == IF rr.forward
                  THEN page = <<>> \/ next_from > stream_end_nonce
                  ELSE page = <<>> \/ next_from = 0
    IN  IF evs = <<>>
        THEN ReadStreamResponse(<<>>, TRUE,
                IF rr.forward
                THEN (IF rr.from_aggregate_nonce >= 1 THEN rr.from_aggregate_nonce ELSE 1)
                ELSE rr.from_aggregate_nonce)
        ELSE ReadStreamResponse(page, is_end, next_from)

NoRead == [req |-> ReadStreamRequest("", <<>>, 0, 0, FALSE), resp |-> ReadError("Pending")]

\* a read_stream call: streams.read() waits for the writer
ReadStream(rr) ==
    /\ UNCHANGED <<backend, pgVars>>
    /\ rd = NoRead
    /\ (rr.tenant_id = "" \/ rr.aggregate_id = <<>> \/ rwlock_read(streams_lock))
    /\ rd' = [req |-> rr, resp |-> read_stream(rr)]
    /\ UNCHANGED <<memVars, callVars, subVars>>

\* the caller takes the response (of either engine)
ReadReturn ==
    /\ UNCHANGED <<backend, pgVars>>
    /\ rd # NoRead
    /\ rd' = NoRead
    /\ UNCHANGED <<memVars, callVars, subVars>>


\* ------------------------------------------------------------------ relational engine: append

\* no row
NoRow == [present |-> FALSE]
AggregateRow(last_nonce, last_global_nonce) ==
    [present |-> TRUE, last_nonce |-> last_nonce, last_global_nonce |-> last_global_nonce]
IdempotencyRow(fingerprint, first, last, last_global) ==
    [present |-> TRUE, request_fingerprint |-> fingerprint, first_committed_nonce |-> first,
     last_committed_nonce |-> last, last_global_nonce |-> last_global]

\* SQLSTATE of a failed statement: unique_violation, and what the sequencing
\* trigger may raise (check_violation or raise_exception)
UniqueViolation == "23505"
TriggerCodes == {"23514", "P0001"}

\* map_db_error
map_db_error(code) ==
    IF code = "23505" THEN Concurrency(NoDetail)
    ELSE IF code = "23514" THEN Err("Invalid")
    ELSE Err("Internal")

\* the rows of an aggregate a statement of transaction p sees (READ COMMITTED:
\* what is committed, and what p itself inserted)
Range(f) == {f[i] : i \in DOMAIN f}
VisibleRows(p, t, a) ==
    {e \in pg_events \cup Range(tx_events[p]) : e.tenant_id = t /\ e.aggregate_id = a}
MaxNonce(rows) ==
    IF rows = {} THEN 0
    ELSE LET e == CHOOSE x \in rows : \A y \in rows : y.aggregate_nonce <= x.aggregate_nonce
         IN  e.aggregate_nonce

\* UNIQUE(tenant_id, aggregate_id, aggregate_nonce) and UNIQUE(tenant_id, event_id)
\* of table events
Conflicts(row, other) ==
    /\ row.tenant_id = other.tenant_id
    /\ \/ row.aggregate_id = other.aggregate_id /\ row.aggregate_nonce = other.aggregate_nonce
       \/ row.event_id = other.event_id
\* the sequencing trigger of table events rejects a row whose aggregate_nonce
\* is not the aggregate's last + 1
OutOfSequence(p, row) ==
    row.aggregate_nonce # MaxNonce(VisibleRows(p, row.tenant_id, row.aggregate_id)) + 1

\* the events the open transactions have still to insert
Uninserted(p) == IF pc[p] = "pg_insert" THEN Len(assigned_events[p]) - Len(tx_events[p]) ELSE 0
RECURSIVE SumUninserted(_)
SumUninserted(ps) ==
    IF ps = {} THEN 0
    ELSE LET q == CHOOSE x \in ps : TRUE IN Uninserted(q) + SumUninserted(ps \ {q})

\* the row locks of a transaction are released when it ends
RECURSIVE Unlock(_, _)
Unlock(locks, keys) ==
    IF keys = {} THEN locks
    ELSE LET k == CHOOSE x \in keys : TRUE
         IN  Unlock([locks EXCEPT ![k] = None], keys \ {k})

\* the transaction ends (tx.commit(), tx.rollback(), or the drop of tx by `?`,
\* which rolls it back): its row locks are released, and the call returns
PgEnd(p, result) ==
    /\ Return(p, result)
    /\ tx_events' = [tx_events EXCEPT ![p] = <<>>]
    /\ tx_last' = [tx_last EXCEPT ![p] = AggregateRow(0, 0)]
    /\ pg_row_lock' = Unlock(pg_row_lock, {k \in DOMAIN pg_row_lock : pg_row_lock[k] = p})

\* append, lines 219-273: SELECT ... FROM aggregates ... FOR UPDATE, the
\* concurrency check and the nonce check, for request r with normalized
\* events evs
PgSelectAggregateFor(p, r, evs) ==
    LET key == StreamKey(r.tenant_id, r.aggregate_id)
        row == pg_aggregates[key]
        current_last_nonce == IF row.present THEN row.last_nonce ELSE 0
        current_last_global == IF row.present THEN row.last_global_nonce ELSE 0
    IN  \* a row that exists is locked; the statement waits for the lock
        /\ row.present => pg_row_lock[key] \in {None, p}
        /\ IF ~expected_ok(r.expected_aggregate_nonce, current_last_nonce)
           THEN /\ PgEnd(p, Concurrency(ConcurrencyErrorDetail(
                        r.tenant_id, r.aggregate_id, current_last_nonce, current_last_global)))
                /\ UNCHANGED pg_seq
           ELSE IF ~nonces_ok(evs, current_last_nonce)
           THEN /\ PgEnd(p, Err("Invalid"))
                /\ UNCHANGED pg_seq
           ELSE /\ pg_seq + SumUninserted(Appenders \ {p}) + Len(evs) <= MaxGlobal
                /\ pg_row_lock' = IF row.present THEN [pg_row_lock EXCEPT ![key] = p]
                                  ELSE pg_row_lock
                /\ tx_last' = [tx_last EXCEPT ![p] =
                                  AggregateRow(current_last_nonce, current_last_global)]
                /\ pc' = [pc EXCEPT ![p] = "pg_insert"]
                /\ res' = [res EXCEPT ![p] = Pending]
                /\ assigned_events' = [assigned_events EXCEPT ![p] = evs]
                /\ UNCHANGED <<tx_events, unsent, pg_seq>>

\* append, lines 143-217 (and on to 273 without idempotency key): request
\* checks, normalization, pool.begin(), and the idempotency lookup
PgAppendBegin(p, r) ==
    /\ pc[p] = "idle"
    /\ req' = [req EXCEPT ![p] = r]
    /\ UNCHANGED <<backend, pg_events, pg_aggregates, pg_idempotency, memVars, subVars, rd>>
    /\ LET norm == normalize_events(r.events, r.tenant_id, r.aggregate_id, r.aggregate_type)
           ikey == IdempotencyKey(r.tenant_id, r.aggregate_id, r.idempotency_key)
           fingerprint == batch_fingerprint(norm.events)
       IN  IF request_error(r) # ""
           THEN /\ Return(p, Err(request_error(r)))
                /\ UNCHANGED <<pg_seq, pg_row_lock, tx_events, tx_last>>
           ELSE IF ~norm.ok
           THEN /\ Return(p, Err(norm.err))
                /\ UNCHANGED <<pg_seq, pg_row_lock, tx_events, tx_last>>
           ELSE IF r.idempotency_key = ""
           THEN PgSelectAggregateFor(p, r, norm.events)
           ELSE IF pg_idempotency[ikey].present
           THEN /\ PgEnd(p,
                        IF pg_idempotency[ikey].request_fingerprint = fingerprint
                        THEN Ok(AppendResponse(pg_idempotency[ikey].last_global_nonce,
                                               pg_idempotency[ikey].last_committed_nonce))
                        ELSE Err("AlreadyExists"))
                /\ UNCHANGED pg_seq
           ELSE /\ pc' = [pc EXCEPT ![p] = "pg_aggregate"]
                /\ res' = [res EXCEPT ![p] = Pending]
                /\ assigned_events' = [assigned_events EXCEPT ![p] = norm.events]
                /\ UNCHANGED <<unsent, pg_seq, pg_row_lock, tx_events, tx_last>>

\* append, lines 219-273, after an idempotency lookup that found no row
PgSelectAggregate(p) ==
    /\ pc[p] = "pg_aggregate"
    /\ PgSelectAggregateFor(p, req[p], assigned_events[p])
    /\ UNCHANGED <<backend, pg_events, pg_aggregates, pg_idempotency, memVars, subVars, rd, req>>

\* append, lines 277-349: the INSERT of the next event.  The sequence gives
\* the global nonce; the statement fails on a committed row with the same
\* unique key and where the sequencing trigger finds the nonce is not the
\* aggregate's last + 1, and waits for a transaction that holds such a row
\* uncommitted.
PgInsertEvent(p) ==
    /\ pc[p] = "pg_insert"
    /\ Len(tx_events[p]) < Len(assigned_events[p])
    /\ UNCHANGED <<backend, pg_events, pg_aggregates, pg_idempotency, memVars, subVars, rd, req>>
    /\ \E now \in NowValues :
        LET ev == assigned_events[p][Len(tx_events[p]) + 1]
            \* the columns tenant_id, aggregate_id and aggregate_type are bound
            \* to the request's values, the others to the event's metadata
            row == [ev EXCEPT !.recorded_time_unix_ms = now, !.global_nonce = pg_seq + 1,
                              !.tenant_id = req[p].tenant_id,
                              !.aggregate_id = req[p].aggregate_id,
                              !.aggregate_type = req[p].aggregate_type]
            duplicate == \E e \in pg_events \cup Range(tx_events[p]) : Conflicts(row, e)
            codes == (IF duplicate THEN {UniqueViolation} ELSE {})
                        \cup (IF OutOfSequence(p, row) THEN TriggerCodes ELSE {})
        IN  /\ pg_seq' = pg_seq + 1
            /\ IF codes # {}
               THEN \E code \in codes : PgEnd(p, map_db_error(code))
               ELSE /\ \A q \in Appenders \ {p} :
                            \A e \in Range(tx_events[q]) : ~Conflicts(row, e)
                    /\ tx_events' = [tx_events EXCEPT ![p] = Append(@, row)]
                    /\ pc' = [pc EXCEPT ![p] =
                                IF Len(tx_events[p]) + 1 = Len(assigned_events[p])
                                THEN "pg_commit" ELSE "pg_insert"]
                    /\ UNCHANGED <<res, assigned_events, unsent, tx_last, pg_row_lock>>

\* append, lines 351-417: the upsert of the aggregate row (locked by this
\* transaction, or new), the upsert of the idempotency row, and the commit
PgCommit(p) ==
    /\ pc[p] = "pg_commit"
    /\ LET r == req[p]
           key == StreamKey(r.tenant_id, r.aggregate_id)
           ikey == IdempotencyKey(r.tenant_id, r.aggregate_id, r.idempotency_key)
           rows == tx_events[p]
           last_global_nonce == rows[Len(rows)].global_nonce
           last_committed == rows[Len(rows)].aggregate_nonce
           first_committed == rows[1].aggregate_nonce
       IN  /\ pg_events' = pg_events \cup Range(rows)
           /\ pg_aggregates' = [pg_aggregates EXCEPT ![key] =
                                    AggregateRow(last_committed, last_global_nonce)]
           /\ pg_idempotency' =
                IF r.idempotency_key # ""
                THEN [pg_idempotency EXCEPT ![ikey] =
                        IdempotencyRow(batch_fingerprint(assigned_events[p]),
                                       first_committed, last_committed, last_global_nonce)]
                ELSE pg_idempotency
           /\ PgEnd(p, Ok(AppendResponse(last_global_nonce, last_committed)))
    /\ UNCHANGED <<backend, pg_seq, memVars, subVars, rd, req>>

\* ------------------------------------------------------------------ relational engine: read_stream

\* ORDER BY aggregate_nonce ASC
RECURSIVE OrderByAggregateNonce(_)
OrderByAggregateNonce(rows) ==
    IF rows = {} THEN <<>>
    ELSE LET e == CHOOSE x \in rows : \A y \in rows : x.aggregate_nonce <= y.aggregate_nonce
         IN  <<e>> \o OrderByAggregateNonce(rows \ {e})
\* ORDER BY global_nonce ASC
RECURSIVE OrderByGlobalNonce(_)
OrderByGlobalNonce(rows) ==
    IF rows = {} THEN <<>>
    ELSE LET e == CHOOSE x \in rows : \A y \in rows : x.global_nonce <= y.global_nonce
         IN  <<e>> \o OrderByGlobalNonce(rows \ {e})
\* Vec::reverse
RECURSIVE Reverse(_)
Reverse(q) == IF q = <<>> THEN <<>> ELSE Append(Reverse(Tail(q)), Head(q))
\* a LIMIT that returns one row less when the query has n rows or more
Limit_short(q, n) == IF n > Len(q) THEN q ELSE SubSeq(q, 1, n - 1)
\* LIMIT n
Limit(q, n) == IF n >= Len(q) THEN q ELSE SubSeq(q, 1, n)

\* PostgresStore::read_stream
pg_read_stream(rr) ==
    IF rr.tenant_id = "" THEN ReadError("Unauthenticated")
    ELSE IF rr.aggregate_id = <<>> THEN ReadError("Invalid")
    ELSE
    LET start_nonce == IF rr.from_aggregate_nonce <= 1 THEN 1 ELSE rr.from_aggregate_nonce
        of_stream == {e \in pg_events :
                        e.tenant_id = rr.tenant_id /\ e.aggregate_id = rr.aggregate_id}
        rows == IF rr.forward
                THEN Limit(OrderByAggregateNonce(
                        {e \in of_stream : e.aggregate_nonce >= start_nonce}), rr.max_count)
                ELSE Limit(Reverse(OrderByAggregateNonce(
                        {e \in of_stream : e.aggregate_nonce <= start_nonce})), rr.max_count)
        evs == IF rr.forward THEN rows ELSE Reverse(rows)
        next_from == IF rr.forward
                     THEN IF evs # <<>> THEN evs[Len(evs)].aggregate_nonce + 1
                          ELSE start_nonce
                     ELSE IF evs # <<>> THEN SaturatingSub1(evs[1].aggregate_nonce)
                          ELSE 0
    IN  ReadStreamResponse(evs, evs = <<>>, next_from)

\* a read_stream call of the relational engine: one query on the pool
PgReadStream(rr) ==
    /\ rd = NoRead
    /\ rd' = [req |-> rr, resp |-> pg_read_stream(rr)]
    /\ UNCHANGED <<backend, pgVars, memVars, callVars, subVars>>

\* ------------------------------------------------------------------ relational engine: subscribe

\* the two queries of subscribe: the rows of the tenant from (catch-up,
\* global_nonce >= cursor) or after (live, global_nonce > cursor) the cursor,
\* with aggregate_id LIKE 'prefix%' when a prefix is given, in global order
SubscribeQuery(sr, from, inclusive) ==
    OrderByGlobalNonce(
        {e \in pg_events :
            /\ e.tenant_id = sr.tenant_id
            /\ IF inclusive THEN e.global_nonce >= from ELSE e.global_nonce > from
            /\ (sr.aggregate_id_prefix = <<>>
                    \/ StartsWith(e.aggregate_id, sr.aggregate_id_prefix))})

\* the cursor after the rows of a query: the global_nonce of the last row
CursorAfter(rows, old) == IF rows = <<>> THEN old ELSE rows[Len(rows)].global_nonce

\* the first poll of the stream (phase None): the catch-up query, then the
\* Replay arm on its rows
PgPollFirst(s, sr) ==
    /\ sub_pc[s] = "none"
    /\ sub_req' = [sub_req EXCEPT ![s] = sr]
    /\ LET items == SubscribeQuery(sr, sr.from_global_nonce, TRUE)
       IN  /\ cursor' = [cursor EXCEPT ![s] = CursorAfter(items, sr.from_global_nonce)]
           /\ replay_items' = [replay_items EXCEPT ![s] = items]
           /\ IF items # <<>>
              THEN /\ sub_pc' = [sub_pc EXCEPT ![s] = "replay"]
                   /\ replay_idx' = [replay_idx EXCEPT ![s] = 1]
                   /\ emitted' = [emitted EXCEPT ![s] = Append(@, items[1])]
              ELSE /\ sub_pc' = [sub_pc EXCEPT ![s] = "live"]
                   /\ UNCHANGED <<replay_idx, emitted>>
    /\ UNCHANGED <<backend, pgVars, memVars, callVars, rx, rd>>

\* a poll in phase Replay: the next item, or a heartbeat and the move to Live
PgPollReplay(s) ==
    /\ sub_pc[s] = "replay"
    /\ IF replay_idx[s] < Len(replay_items[s])
       THEN /\ emitted' = [emitted EXCEPT ![s] = Append(@, replay_items[s][replay_idx[s] + 1])]
            /\ replay_idx' = [replay_idx EXCEPT ![s] = @ + 1]
            /\ UNCHANGED <<sub_pc, replay_items>>
       ELSE /\ sub_pc' = [sub_pc EXCEPT ![s] = "live"]
            /\ replay_items' = [replay_items EXCEPT ![s] = <<>>]
            /\ replay_idx' = [replay_idx EXCEPT ![s] = 0]
            /\ UNCHANGED emitted
    /\ UNCHANGED <<backend, pgVars, memVars, callVars, sub_req, rx, cursor, rd>>

\* a poll in phase Live: the rows after the cursor; the first is yielded and
\* the others are left to phase Replay; without rows a heartbeat
PgPollLive(s) ==
    /\ sub_pc[s] = "live"
    /\ LET items == SubscribeQuery(sub_req[s], cursor[s], FALSE)
       IN  /\ items # <<>>
           /\ cursor' = [cursor EXCEPT ![s] = CursorAfter(items, cursor[s])]
           /\ emitted' = [emitted EXCEPT ![s] = Append(@, items[1])]
           /\ IF Len(items) > 1
              THEN /\ sub_pc' = [sub_pc EXCEPT ![s] = "replay"]
                   /\ replay_items' = [replay_items EXCEPT ![s] = Tail(items)]
                   /\ replay_idx' = [replay_idx EXCEPT ![s] = 0]
              ELSE UNCHANGED <<sub_pc, replay_items, replay_idx>>
    /\ UNCHANGED <<backend, pgVars, memVars, callVars, sub_req, rx, rd>>

\* ------------------------------------------------------------------ specifications

vars == <<backend, pgVars, memVars, callVars, subVars, rd>>

\* PostgresStore::connect on an empty database
InitPg ==
    /\ pg_events = {}
    /\ pg_aggregates = [k \in StreamKeys |-> NoRow]
    /\ pg_idempotency = [k \in IdempotencyKeysOfStore |-> NoRow]
    /\ pg_seq = 0
    /\ pg_row_lock = [k \in StreamKeys |-> None]
    /\ tx_events = [p \in Appenders |-> <<>>]
    /\ tx_last = [p \in Appenders |-> AggregateRow(0, 0)]

\* InMemoryStore::new()
InitMem ==
    /\ streams = [k \in StreamKeys |-> <<>>]
    /\ all = <<>>
    /\ next_global = 1
    /\ idempotency = <<>>
    /\ streams_lock = None
    /\ idempotency_lock = None

\* no call in progress, no subscription
InitCalls ==
    /\ pc = [p \in Appenders |-> "idle"]
    /\ req = [p \in Appenders |-> NoRequest]
    /\ res = [p \in Appenders |-> Pending]
    /\ assigned_events = [p \in Appenders |-> <<>>]
    /\ unsent = [p \in Appenders |-> 0]
    /\ sub_pc = [s \in Subscribers |-> "none"]
    /\ sub_req = [s \in Subscribers |-> SubscribeRequest("", <<>>, 0)]
    /\ replay_items = [s \in Subscribers |-> <<>>]
    /\ replay_idx = [s \in Subscribers |-> 0]
    /\ rx = [s \in Subscribers |-> <<>>]
    /\ emitted = [s \in Subscribers |-> <<>>]
    /\ cursor = [s \in Subscribers |-> 0]
    /\ rd = NoRead

\* resolve_backend(): BACKEND selects the engine
Init ==
    /\ backend \in {"memory", "postgres"}
    /\ InitPg
    /\ InitMem
    /\ InitCalls

MaxFrom == 2
SubscribeRequests ==
    {SubscribeRequest(t, prefix, from) : t \in Tenants, prefix \in Prefixes, from \in {0, MaxFrom}}
\* reads of every aggregate, from before the first to beyond the last nonce
\* an aggregate can hold, of any max_count up to the size of the store
ReadStreamRequests ==
    {ReadStreamRequest(k[1], k[2], from, max, fwd) :
        k \in StreamKeys, from \in 0..(MaxGlobal + 1), max \in 0..MaxGlobal, fwd \in BOOLEAN}

\* the steps of the append calls
MemAppend ==
    \E p \in Appenders :
        \/ pc[p] = "idle" /\ \E r \in AppendRequests(p) : AppendCheck(p, r)
        \/ AppendIdempotency(p)
        \/ AppendCommit(p)
        \/ AppendRecord(p)
        \/ AppendPublish(p)
PgAppend ==
    \E p \in Appenders :
        \/ pc[p] = "idle" /\ \E r \in AppendRequests(p) : PgAppendBegin(p, r)
        \/ PgSelectAggregate(p)
        \/ PgInsertEvent(p)
        \/ PgCommit(p)
\* the steps of the subscriptions
MemSubscribe ==
    \E s \in Subscribers :
        \/ \E sr \in SubscribeRequests : SubscribeSnapshot(s, sr)
        \/ SubscribeReceiver(s)
        \/ EmitReplay(s)
        \/ EmitLive(s)
PgSubscribe ==
    \E s \in Subscribers :
        \/ \E sr \in SubscribeRequests : PgPollFirst(s, sr)
        \/ PgPollReplay(s)
        \/ PgPollLive(s)
\* the read_stream calls
MemRead == \E rr \in ReadStreamRequests : ReadStream(rr)
PgRead == \E rr \in ReadStreamRequests : PgReadStream(rr)
\* the callers take their results
Returns == \E p \in Appenders : AppendReturn(p)

\* a result is handed to its caller before the store takes its next step
Quiet == rd = NoRead /\ \A p \in Appenders : pc[p] # "return"
Memory == Quiet /\ backend = "memory"
Postgres == Quiet /\ backend = "postgres"

\* appends on either engine
NextA == Returns \/ (Memory /\ MemAppend) \/ (Postgres /\ PgAppend)
SpecA == Init /\ [][NextA]_vars

\* the appends that run beside a subscription: one event, without
\* idempotency key, and passing the checks
LiveRequests(p) == Requests(p, StreamKeys, 0..MaxExpected, {""}, {1})
MemLiveAppend ==
    \E p \in Appenders :
        \/ pc[p] = "idle" /\ \E r \in LiveRequests(p) : AppendCheck(p, r) /\ pc'[p] # "return"
        \/ AppendCommit(p)
        \/ AppendPublish(p)
PgLiveAppend ==
    \E p \in Appenders :
        \/ pc[p] = "idle" /\ \E r \in LiveRequests(p) : PgAppendBegin(p, r) /\ pc'[p] # "return"
        \/ PgInsertEvent(p)
        \/ PgCommit(p)

\* subscriptions beside appends on either engine
NextS ==
    \/ Returns
    \/ (Memory /\ MemLiveAppend)
    \/ (Memory /\ MemSubscribe)
    \/ (Postgres /\ PgLiveAppend)
    \/ (Postgres /\ PgSubscribe)
SpecS == Init /\ [][NextS]_vars

\* the first-append race: each appender sends one request with
\* expected_aggregate_nonce = 0 and one event with aggregate_nonce = 1, and
\* keeps its result
RaceRequests(p) == Requests(p, StreamKeys, {0}, IdempotencyKeys, {1})
MemRaceAppend ==
    \E p \in Appenders :
        \/ pc[p] = "idle" /\ \E r \in RaceRequests(p) : AppendCheck(p, r)
        \/ AppendIdempotency(p)
        \/ AppendCommit(p)
        \/ AppendRecord(p)
        \/ AppendPublish(p)
PgRaceAppend ==
    \E p \in Appenders :
        \/ pc[p] = "idle" /\ \E r \in RaceRequests(p) : PgAppendBegin(p, r)
        \/ PgSelectAggregate(p)
        \/ PgInsertEvent(p)
        \/ PgCommit(p)
NextRace ==
    \/ (backend = "memory" /\ MemRaceAppend)
    \/ (backend = "postgres" /\ PgRaceAppend)
SpecRace == Init /\ [][NextRace]_vars

\* the appends that run beside the reads: batches without idempotency key
\* that pass the checks
BatchRequests(p) == Requests(p, StreamKeys, 0..MaxExpected, {""}, 1..MaxBatch)
MemBatchAppend ==
    \E p \in Appenders :
        \/ pc[p] = "idle" /\ \E r \in BatchRequests(p) : AppendCheck(p, r) /\ pc'[p] # "return"
        \/ AppendCommit(p)
        \/ AppendPublish(p)
PgBatchAppend ==
    \E p \in Appenders :
        \/ pc[p] = "idle" /\ \E r \in BatchRequests(p) : PgAppendBegin(p, r) /\ pc'[p] # "return"
        \/ PgInsertEvent(p)
        \/ PgCommit(p)

\* reads beside appends on either engine
NextR ==
    \/ Returns
    \/ ReadReturn
    \/ (Memory /\ MemBatchAppend)
    \/ (Memory /\ MemRead)
    \/ (Postgres /\ PgBatchAppend)
    \/ (Postgres /\ PgRead)
SpecR == Init /\ [][NextR]_vars
\* appends that reuse an event_id: one event, to any aggregate, that carries
\* the event_id a1 gives its first event of Order-1, and (on Order-1 of t1) a
\* batch whose two events carry one event_id
SharedEventId == EventIdOf("a1", AggOrder, 1)
DuplicateIdRequests(p) ==
    {AppendRequest(k[1], k[2], AggregateTypeOf(k[2]), 0, "",
        <<[ClientEvent(p, k[1], k[2], 1) EXCEPT !.event_id = SharedEventId]>>) : k \in StreamKeys}
    \cup {AppendRequest("t1", AggOrder, "Order", 0, "",
            <<[ClientEvent(p, "t1", AggOrder, 1) EXCEPT !.event_id = SharedEventId],
              [ClientEvent(p, "t1", AggOrder, 2) EXCEPT !.event_id = SharedEventId]>>)}
MemIdAppend ==
    \E p \in Appenders :
        \/ pc[p] = "idle" /\ \E r \in DuplicateIdRequests(p) : AppendCheck(p, r)
        \/ AppendCommit(p)
        \/ AppendPublish(p)
PgIdAppend ==
    \E p \in Appenders :
        \/ pc[p] = "idle" /\ \E r \in DuplicateIdRequests(p) : PgAppendBegin(p, r)
        \/ PgInsertEvent(p)
        \/ PgCommit(p)
NextId ==
    \/ Returns
    \/ (Memory /\ MemIdAppend)
    \/ (Postgres /\ PgIdAppend)
SpecId == Init /\ [][NextId]_vars

\* appends of one event whose metadata leaves tenant_id, aggregate_id,
\* aggregate_type and content_type empty, and of one event that names them
\* and a content_type of its own
BlankEvent(p, k, n) ==
    [ClientEvent(p, k[1], k[2], n) EXCEPT
        !.tenant_id = "", !.aggregate_id = <<>>, !.aggregate_type = "", !.content_type = ""]
MetaRequests(p) ==
    {AppendRequest(k[1], k[2], AggregateTypeOf(k[2]), e, "", <<BlankEvent(p, k, e + 1)>>) :
        k \in StreamKeys, e \in 0..MaxExpected}
    \cup {AppendRequest(k[1], k[2], AggregateTypeOf(k[2]), e, "",
            <<[ClientEvent(p, k[1], k[2], e + 1) EXCEPT !.content_type = "application/json"]>>) :
            k \in StreamKeys, e \in 0..MaxExpected}
MemMetaAppend ==
    \E p \in Appenders :
        \/ pc[p] = "idle" /\ \E r \in MetaRequests(p) : AppendCheck(p, r)
        \/ AppendCommit(p)
        \/ AppendPublish(p)
PgMetaAppend ==
    \E p \in Appenders :
        \/ pc[p] = "idle" /\ \E r \in MetaRequests(p) : PgAppendBegin(p, r)
        \/ PgInsertEvent(p)
        \/ PgCommit(p)
NextMeta ==
    \/ Returns
    \/ (Memory /\ MemMetaAppend)
    \/ (Postgres /\ PgMetaAppend)
SpecMeta == Init /\ [][NextMeta]_vars

\* the in-memory engine with the commit loop taken turn by turn: appends with
\* and without idempotency key, also failing ones, beside reads of the
\* aggregate and a subscription; a call begins once the results are taken
LockKeys == {StreamKey("t1", AggOrder)}
LockRequests(p) ==
    Requests(p, LockKeys, 0..1, IdempotencyKeys, 1..MaxBatch)
        \cup WrongNonceRequests(p)
        \cup {AppendRequest("", AggOrder, "Order", 0, "", Batch(p, "", AggOrder, 1, 1))}
\* reads of the whole aggregate: forward from the first nonce, backward from
\* the highest
LockReads ==
    {ReadStreamRequest(k[1], k[2], IF fwd THEN 1 ELSE MaxGlobal, 0, fwd) :
        k \in LockKeys, fwd \in BOOLEAN}
LockSubscribes == {SubscribeRequest("t1", <<>>, 0)}
\* the steps of the append call of p once it has begun
AppendStepL(p) ==
    \/ AppendIdempotency(p)
    \/ AppendLockAll(p)
    \/ AppendPushOne(p)
    \/ AppendUnlock(p)
    \/ AppendRecord(p)
    \/ AppendPublish(p)
AppendBeginL(p) == Quiet /\ pc[p] = "idle" /\ \E r \in LockRequests(p) : AppendCheck(p, r)
\* subscribe, lines 424-437: all.read() waits for the writer
SubscribeSnapshotL(s) ==
    /\ Quiet
    /\ rwlock_read(all_lock)
    /\ \E sr \in LockSubscribes : SubscribeSnapshot(s, sr)
\* read_stream, at any time
ReadL == \E rr \in LockReads : ReadStream(rr)
NextL ==
    \/ \E p \in Appenders : AppendBeginL(p)
    \/ \E p \in Appenders : AppendStepL(p)
    \/ \E p \in Appenders : AppendReturn(p)
    \/ ReadL
    \/ ReadReturn
    \/ \E s \in Subscribers : SubscribeSnapshotL(s)
    \/ \E s \in Subscribers : SubscribeReceiver(s)
InitL == Init /\ backend = "memory"
SpecL == InitL /\ [][NextL]_vars
\* every call that has begun is scheduled again and again, and so is every
\* caller that waits for its result
SpecLFair ==
    /\ SpecL
    /\ \A p \in Appenders : WF_vars(AppendStepL(p))
    /\ WF_vars(ReadReturn)
    /\ \A s \in Subscribers : WF_vars(SubscribeReceiver(s))

\* one sequential history of calls given to both engines: each append
\* request is answered by the in-memory engine (the call of a1) and then by
\* the relational engine (the call of a2), and the two results are taken
\* before the next request
InMemoryCall == "a1"
PostgresCall == "a2"
EqRequests == AppendRequests(InMemoryCall)
EqMemBegin ==
    /\ \A p \in Appenders : pc[p] = "idle"
    /\ \E r \in EqRequests : AppendCheck(InMemoryCall, r)
EqMemStep ==
    \/ AppendIdempotency(InMemoryCall)
    \/ AppendCommit(InMemoryCall)
    \/ AppendRecord(InMemoryCall)
    \/ AppendPublish(InMemoryCall)
EqPgBegin ==
    /\ pc[InMemoryCall] = "return" /\ pc[PostgresCall] = "idle"
    /\ PgAppendBegin(PostgresCall, req[InMemoryCall])
EqPgStep ==
    \/ PgSelectAggregate(PostgresCall)
    \/ PgInsertEvent(PostgresCall)
    \/ PgCommit(PostgresCall)
EqReturn ==
    \/ pc[PostgresCall] = "return" /\ AppendReturn(InMemoryCall)
    \/ pc[InMemoryCall] = "idle" /\ AppendReturn(PostgresCall)
NextEq == EqMemBegin \/ EqMemStep \/ EqPgBegin \/ EqPgStep \/ EqReturn
SpecEq == InitL /\ [][NextEq]_vars

\* calls with and without a tenant: appends of one event, reads and
\* subscriptions of one aggregate, on either engine
TenantsOrNone == {"", "t1"}
TenantRequests(p) ==
    Requests(p, {StreamKey(t, AggOrder) : t \in TenantsOrNone}, 0..1, {"", "k"}, {1})
        \cup {AppendRequest("", <<>>, "", 0, "", <<>>)}
TenantReads ==
    {ReadStreamRequest(t, AggOrder, 1, max, fwd) :
        t \in TenantsOrNone, max \in 0..1, fwd \in BOOLEAN}
TenantSubscribes == {SubscribeRequest(t, <<>>, 0) : t \in TenantsOrNone}
MemTenantAppend ==
    \E p \in Appenders :
        \/ pc[p] = "idle" /\ \E r \in TenantRequests(p) : AppendCheck(p, r)
        \/ AppendIdempotency(p)
        \/ AppendCommit(p)
        \/ AppendRecord(p)
        \/ AppendPublish(p)
PgTenantAppend ==
    \E p \in Appenders :
        \/ pc[p] = "idle" /\ \E r \in TenantRequests(p) : PgAppendBegin(p, r)
        \/ PgSelectAggregate(p)
        \/ PgInsertEvent(p)
        \/ PgCommit(p)
MemTenantSubscribe ==
    \E s \in Subscribers :
        \/ \E sr \in TenantSubscribes : SubscribeSnapshot(s, sr)
        \/ SubscribeReceiver(s)
        \/ EmitReplay(s)
        \/ EmitLive(s)
PgTenantSubscribe ==
    \E s \in Subscribers :
        \/ \E sr \in TenantSubscribes : PgPollFirst(s, sr)
        \/ PgPollReplay(s)
        \/ PgPollLive(s)
MemTenantRead == \E rr \in TenantReads : ReadStream(rr)
PgTenantRead == \E rr \in TenantReads : PgReadStream(rr)
NextT ==
    \/ Returns
    \/ ReadReturn
    \/ (Memory /\ MemTenantAppend)
    \/ (Memory /\ MemTenantRead)
    \/ (Memory /\ MemTenantSubscribe)
    \/ (Postgres /\ PgTenantAppend)
    \/ (Postgres /\ PgTenantRead)
    \/ (Postgres /\ PgTenantSubscribe)
SpecT == Init /\ [][NextT]_vars

\* appends that fail and appends that succeed, with and without
\* idempotency key, to one aggregate, beside an open receiver (in-memory
\* engine) or the tables (relational engine)
FrameRequests(p) ==
    Requests(p, LockKeys, 0..MaxExpected, IdempotencyKeys, 1..MaxBatch)
        \cup WrongNonceRequests(p) \cup MalformedRequests(p)
MemFrameAppend ==
    \E p \in Appenders :
        \/ pc[p] = "idle" /\ \E r \in FrameRequests(p) : AppendCheck(p, r)
        \/ AppendIdempotency(p)
        \/ AppendCommit(p)
        \/ AppendRecord(p)
        \/ AppendPublish(p)
PgFrameAppend ==
    \E p \in Appenders :
        \/ pc[p] = "idle" /\ \E r \in FrameRequests(p) : PgAppendBegin(p, r)
        \/ PgSelectAggregate(p)
        \/ PgInsertEvent(p)
        \/ PgCommit(p)
MemFrameSubscribe ==
    \E s \in Subscribers :
        \/ \E sr \in LockSubscribes : SubscribeSnapshot(s, sr)
        \/ SubscribeReceiver(s)
NextF ==
    \/ Returns
    \/ (Memory /\ MemFrameAppend)
    \/ (Memory /\ MemFrameSubscribe)
    \/ (Postgres /\ PgFrameAppend)
SpecF == Init /\ [][NextF]_vars

\* ------------------------------------------------------------------ properties

\* the committed events of the store
Committed == IF backend = "memory" THEN Range(all) ELSE pg_events
\* the committed rows of an aggregate
RowsOf(k) == {e \in pg_events : e.tenant_id = k[1] /\ e.aggregate_id = k[2]}
\* the stores are left as they are
StoreUnchanged ==
    UNCHANGED <<streams, all, next_global, idempotency, pg_events, pg_aggregates, pg_idempotency>>
\* a result that is an error
Failed(p) == pc[p] = "return" /\ res[p].kind # "Ok"

Contiguous(stream) == \A i \in 1..Len(stream) : stream[i].aggregate_nonce = i

\* C1: in every reachable state of either engine the events stored for each
\* (tenant_id, aggregate_id) carry the aggregate_nonce values 1, 2, ..., n in
\* stored order (the Vec of the in-memory engine; the rows of the relational
\* engine in the order of their insertion): no gap, duplicate or reordering.
C1_Contiguity ==
    \A k \in StreamKeys :
        /\ Contiguous(streams[k])
        /\ Contiguous(OrderByGlobalNonce(RowsOf(k)))
\* an aggregate holds two events of two appends and an append has just failed
C1_Witness ==
    \E k \in StreamKeys : \E p \in Appenders :
        /\ Failed(p)
        /\ \/ Len(streams[k]) = 2 /\ streams[k][1].payload # streams[k][2].payload
           \/ \E e1, e2 \in RowsOf(k) : e1.payload # e2.payload

\* C2: the global_nonce of a committed event is unique in the store and
\* greater than that of every event committed before it; the global log of
\* the in-memory engine is sorted by strictly increasing global_nonce and
\* next_global is greater than every assigned nonce.
C2_GlobalMonotonic ==
    /\ [](/\ \A i, j \in 1..Len(all) : i < j => all[i].global_nonce < all[j].global_nonce
          /\ \A i \in 1..Len(all) : all[i].global_nonce < next_global
          /\ \A e1, e2 \in pg_events : e1.global_nonce = e2.global_nonce => e1 = e2)
    /\ [][\A e \in Committed' \ Committed :
            \A o \in Committed : o.global_nonce < e.global_nonce]_vars

\* C3: when both appenders have sent an append with expected_aggregate_nonce 0
\* and one event with aggregate_nonce 1 to the same empty aggregate (not both
\* with an idempotency key) and both have their result, one result is Ok with
\* last_aggregate_nonce 1 and the other is Concurrency with a detail that is
\* present and carries the tenant, the aggregate id, 1, and the winner's
\* global_nonce.
C3_FirstAppendRace ==
    \A p, q \in Appenders :
        (/\ p # q
         /\ pc[p] = "return" /\ pc[q] = "return"
         /\ req[p].tenant_id = req[q].tenant_id
         /\ req[p].aggregate_id = req[q].aggregate_id
         /\ ~(req[p].idempotency_key # "" /\ req[q].idempotency_key # ""))
        => \E w \in {p, q} : \E l \in {p, q} \ {w} :
                /\ res[w].kind = "Ok"
                /\ res[w].response.last_aggregate_nonce = 1
                /\ res[l] = Concurrency(ConcurrencyErrorDetail(
                                req[l].tenant_id, req[l].aggregate_id, 1,
                                res[w].response.last_global_nonce))
\* the idempotency record of a request, as the engine in use keeps it
NoRecord == [present |-> FALSE, fingerprint |-> <<>>, response |-> NoResponse]
RecordOf(r) ==
    LET ikey == IdempotencyKey(r.tenant_id, r.aggregate_id, r.idempotency_key)
    IN  IF r.idempotency_key = "" THEN NoRecord
        ELSE IF backend = "memory"
        THEN IF ikey \in DOMAIN idempotency
             THEN [present |-> TRUE, fingerprint |-> idempotency[ikey].fingerprint,
                   response |-> idempotency[ikey].response]
             ELSE NoRecord
        ELSE IF ikey \in DOMAIN pg_idempotency /\ pg_idempotency[ikey].present
             THEN [present |-> TRUE, fingerprint |-> pg_idempotency[ikey].request_fingerprint,
                   response |-> AppendResponse(pg_idempotency[ikey].last_global_nonce,
                                               pg_idempotency[ikey].last_committed_nonce)]
             ELSE NoRecord
\* request r passes the request checks and normalization
Normalizes(r) ==
    /\ request_error(r) = ""
    /\ normalize_events(r.events, r.tenant_id, r.aggregate_id, r.aggregate_type).ok
FingerprintOf(r) ==
    batch_fingerprint(
        normalize_events(r.events, r.tenant_id, r.aggregate_id, r.aggregate_type).events)
\* the step in which the call of p is answered, at the latest by its
\* idempotency lookup
Answers(p) == pc[p] \in {"idle", "idempotency"} /\ pc'[p] = "return"

\* the last aggregate_nonce and global_nonce of the aggregate of request r, as
\* the engine in use reads them in its concurrency check
LastOf(r) ==
    LET key == StreamKey(r.tenant_id, r.aggregate_id)
    IN  IF backend = "memory"
        THEN [nonce |-> LastAggregateNonce(streams[key]), global |-> LastGlobalNonce(streams[key])]
        ELSE IF pg_aggregates[key].present
        THEN [nonce |-> pg_aggregates[key].last_nonce,
              global |-> pg_aggregates[key].last_global_nonce]
        ELSE [nonce |-> 0, global |-> 0]
\* the call of p has returned Concurrency with the detail of the aggregate of
\* its request, and the stores are left as they were
MismatchAnswer(p) ==
    /\ pc'[p] = "return"
    /\ res'[p] = Concurrency(ConcurrencyErrorDetail(
                    req'[p].tenant_id, req'[p].aggregate_id,
                    LastOf(req'[p]).nonce, LastOf(req'[p]).global))
    /\ StoreUnchanged

\* C4 as stated: on whichever engine, an append that passes normalization and
\* whose expected_aggregate_nonce differs from the aggregate's last
\* aggregate_nonce is answered with Concurrency and the detail, and commits
\* nothing.
C4_AnyMismatchIsConcurrency ==
    [][\A p \in Appenders :
        (/\ pc[p] = "idle" /\ pc'[p] = "return"
         /\ Normalizes(req'[p])
         /\ req'[p].expected_aggregate_nonce # LastOf(req'[p]).nonce)
        => MismatchAnswer(p)]_vars

\* C4: an append that passes normalization and whose expected_aggregate_nonce
\* differs from the aggregate's last aggregate_nonce (0 for an aggregate
\* without events) returns Concurrency with a detail that carries the
\* request's tenant_id and aggregate_id and the aggregate's last
\* aggregate_nonce and last global_nonce (0 and 0 without events), and the
\* stores are left as they were; except that the relational engine answers a
\* request whose idempotency key has a record from that record.  The
\* in-memory engine compares in the first step of the call; the relational
\* engine compares when it reads the aggregate row, in the first step of a
\* call without idempotency key and in the step after the idempotency lookup
\* otherwise.
C4_ExpectedMismatch ==
    [][\A p \in Appenders :
        LET r == req'[p]
            mismatch == r.expected_aggregate_nonce # LastOf(r).nonce
        IN  /\ (/\ backend = "memory"
                /\ pc[p] = "idle" /\ pc'[p] # "idle"
                /\ Normalizes(r) /\ mismatch)
               => MismatchAnswer(p)
            /\ (/\ backend = "postgres"
                /\ pc[p] = "idle" /\ pc'[p] # "idle"
                /\ Normalizes(r) /\ mismatch
                /\ ~RecordOf(r).present)
               => IF r.idempotency_key = "" THEN MismatchAnswer(p)
                  ELSE pc'[p] = "pg_aggregate" /\ StoreUnchanged
            /\ (/\ pc[p] = "pg_aggregate" /\ pc'[p] # "pg_aggregate"
                /\ mismatch)
               => MismatchAnswer(p)]_vars
\* on the relational engine an append with an idempotency key that has no
\* record and with expected_aggregate_nonce 0, to an aggregate that already
\* has events, has returned Concurrency with the detail
C4_Witness ==
    \E p \in Appenders :
        /\ backend = "postgres"
        /\ pc[p] = "return"
        /\ req[p].idempotency_key # ""
        /\ req[p].expected_aggregate_nonce = 0
        /\ res[p].kind = "Concurrency"
        /\ res[p].detail.present
        /\ res[p].detail.actual_last_aggregate_nonce >= 1
        /\ res[p].detail.actual_last_global_nonce >= 1

\* C5: an append with an idempotency key whose record (written by an append
\* that succeeded with response R) carries the fingerprint of this request,
\* and that is the identical request (its expected_aggregate_nonce is the one
\* its events follow), returns Ok(R), and the store is left as it was; on
\* both engines.
C5_IdempotentReplay ==
    [][\A p \in Appenders :
        LET r == req'[p]
            rec == RecordOf(r)
        IN  (/\ Answers(p)
             /\ Normalizes(r)
             /\ rec.present
             /\ rec.fingerprint = FingerprintOf(r)
             /\ r.events[1].aggregate_nonce = r.expected_aggregate_nonce + 1)
            => /\ res'[p] = Ok(rec.response)
               /\ StoreUnchanged]_vars

\* C6: an append that passes normalization and whose idempotency key has a
\* record with another fingerprint returns AlreadyExists, and the store is
\* left as it was; on both engines.
C6_KeyReuse ==
    [][\A p \in Appenders :
        LET r == req'[p]
            rec == RecordOf(r)
        IN  (/\ Answers(p)
             /\ Normalizes(r)
             /\ rec.present
             /\ rec.fingerprint # FingerprintOf(r))
            => /\ res'[p].kind = "AlreadyExists"
               /\ StoreUnchanged]_vars
\* C7: on either engine the global_nonce values of the events a subscription
\* emits are strictly increasing.
C7_EmittedIncreasing ==
    \A s \in Subscribers :
        \A i, j \in 1..Len(emitted[s]) :
            i < j => emitted[s][i].global_nonce < emitted[s][j].global_nonce

\* C8: in the in-memory engine the events of the snapshot are emitted, in
\* their order, before any event received from the channel, and no
\* global_nonce is emitted twice by one subscription.
C8_SnapshotThenLiveOnce ==
    backend = "memory" =>
        \A s \in Subscribers :
            /\ Len(emitted[s]) >= replay_idx[s]
            /\ \A i \in 1..replay_idx[s] : emitted[s][i] = replay_items[s][i]
            /\ Len(emitted[s]) > replay_idx[s] => replay_idx[s] = Len(replay_items[s])
            /\ \A i, j \in 1..Len(emitted[s]) :
                    i # j => emitted[s][i].global_nonce # emitted[s][j].global_nonce

\* C9: in the in-memory engine, once a subscription is open, has emitted its
\* replay and has emptied its receiver, and no append is in progress (and no
\* more events were ever sent than the channel retains), every
\* committed event that matches its filter (tenant, prefix, global_nonce >=
\* from_global_nonce) has been emitted: none is skipped between the replay
\* and the live tail.
C9_NoGap ==
    backend = "memory" =>
        \A s \in Subscribers :
            (/\ sub_pc[s] = "open"
             /\ replay_idx[s] = Len(replay_items[s])
             /\ rx[s] = <<>>
             /\ Len(all) <= Capacity
             /\ \A p \in Appenders : pc[p] = "idle")
            => \A i \in 1..Len(all) :
                    (/\ all[i].tenant_id = sub_req[s].tenant_id
                     /\ all[i].global_nonce >= sub_req[s].from_global_nonce
                     /\ StartsWith(all[i].aggregate_id, sub_req[s].aggregate_id_prefix))
                    => \E j \in 1..Len(emitted[s]) : emitted[s][j] = all[i]

\* the reads of every aggregate, in both directions, of no more than
\* max_count events
IsolationReads ==
    {ReadStreamRequest(k[1], k[2], 0, MaxBatch, fwd) : k \in StreamKeys, fwd \in BOOLEAN}
\* the response of the engine in use to a read_stream request
ReadOf(rr) == IF backend = "memory" THEN read_stream(rr) ELSE pg_read_stream(rr)
\* appender p takes a step
StepOf(p) ==
    \/ pc'[p] # pc[p]
    \/ tx_events'[p] # tx_events[p]
    \/ unsent'[p] # unsent[p]

\* C10: on either engine every event a subscription emits and every event
\* read_stream returns carries the tenant_id of the request, and a step of an
\* append of one tenant leaves the responses to the reads of every other
\* tenant as they were.
C10_TenantIsolation ==
    /\ [](/\ \A s \in Subscribers : \A i \in 1..Len(emitted[s]) :
                emitted[s][i].tenant_id = sub_req[s].tenant_id
          /\ \A rr \in IsolationReads :
                LET resp == ReadOf(rr)
                IN  \A i \in 1..Len(resp.events) : resp.events[i].tenant_id = rr.tenant_id)
    /\ [][\A p \in Appenders :
            StepOf(p) => \A rr \in IsolationReads :
                req'[p].tenant_id # rr.tenant_id => ReadOf(rr)' = ReadOf(rr)]_vars
\* a subscription has emitted an event and a read returns events while
\* another tenant holds events of the same aggregate_id
C10_Witness ==
    \E s \in Subscribers : \E rr \in IsolationReads : \E e \in Committed :
        /\ emitted[s] # <<>>
        /\ ReadOf(rr).events # <<>>
        /\ rr.tenant_id = sub_req[s].tenant_id
        /\ e.tenant_id # rr.tenant_id
        /\ e.aggregate_id = rr.aggregate_id
        /\ e.global_nonce >= sub_req[s].from_global_nonce
\* ------------------------------------------------------------------ properties of the stored events

\* s is a prefix of t
IsPrefix(s, t) == Len(s) <= Len(t) /\ \A i \in 1..Len(s) : s[i] = t[i]
\* the events a forward read_stream of aggregate k from nonce 1 returns
FullRead(k) == ReadOf(ReadStreamRequest(k[1], k[2], 1, MaxGlobal, TRUE)).events

\* C11: once an append has returned Ok, a forward read of its aggregate holds
\* an event for every aggregate_nonce up to the returned last_aggregate_nonce,
\* and no step of any append, failed or successful, changes an event a read
\* returned before (payload, metadata, recorded time, global_nonce): what was
\* read stays a prefix of what is read, and no committed event leaves the
\* global log or the events table.  (A read depends on the engine in use and
\* on its stored events only, so steps that leave these alone need no look.)
C11_Immutable ==
    /\ [](\A p \in Appenders :
            (pc[p] = "return" /\ res[p].kind = "Ok")
            => LET evs == FullRead(StreamKey(req[p].tenant_id, req[p].aggregate_id))
               IN  /\ Len(evs) >= res[p].response.last_aggregate_nonce
                   /\ \A n \in 1..res[p].response.last_aggregate_nonce :
                            evs[n].aggregate_nonce = n)
    /\ [][\/ UNCHANGED <<backend, streams, all, pg_events>>
          \/ /\ \A k \in StreamKeys : IsPrefix(FullRead(k), FullRead(k)')
             /\ IsPrefix(all, all')
             /\ pg_events \subseteq pg_events']_vars
\* a second append to an aggregate, by the other appender, has returned Ok,
\* and the read still starts with the event of the first
C11_Witness ==
    \E p \in Appenders :
        LET evs == FullRead(StreamKey(req[p].tenant_id, req[p].aggregate_id))
        IN  /\ pc[p] = "return" /\ res[p].kind = "Ok"
            /\ res[p].response.last_aggregate_nonce = 2
            /\ Len(evs) = 2
            /\ evs[1].payload # PayloadOf(p)
            /\ evs[2].payload = PayloadOf(p)
\* the step in which the engine in use reads the aggregate's last nonce for
\* the call of p and compares: the first step of the call in the in-memory
\* engine and of a call without idempotency key in the relational engine,
\* the step after the idempotency lookup otherwise
Compares(p) ==
    \/ /\ pc[p] = "idle" /\ pc'[p] # "idle"
       /\ Normalizes(req'[p])
       /\ backend = "memory" \/ req'[p].idempotency_key = ""
    \/ pc[p] = "pg_aggregate" /\ pc'[p] # "pg_aggregate"

\* C12: when the concurrency check passes (expected_aggregate_nonce is the
\* aggregate's last nonce) and some event i (1-based here) of the batch has
\* an aggregate_nonce other than last+i, the append returns Invalid and the
\* stores are left as they were: no event of the batch is committed, the
\* ones before position i included.
C12_NonceCheck ==
    [][\A p \in Appenders :
        LET r == req'[p]
            last == LastOf(r).nonce
        IN  (/\ Compares(p)
             /\ r.expected_aggregate_nonce = last
             /\ \E i \in 1..Len(r.events) : r.events[i].aggregate_nonce # last + i)
            => /\ pc'[p] = "return"
               /\ res'[p] = Err("Invalid")
               /\ StoreUnchanged
               /\ UNCHANGED tx_events]_vars
\* an append of two events, the first with last+1 and the second not with
\* last+2, has returned Invalid
C12_Witness ==
    \E p \in Appenders :
        /\ pc[p] = "return" /\ res[p] = Err("Invalid")
        /\ Normalizes(req[p])
        /\ Len(req[p].events) = 2
        /\ req[p].expected_aggregate_nonce = LastOf(req[p]).nonce
        /\ req[p].expected_aggregate_nonce = 1
        /\ req[p].events[1].aggregate_nonce = 2
        /\ req[p].events[2].aggregate_nonce # 3
\* the error kinds that go with the defects of request r: Invalid for an
\* empty aggregate_id, aggregate_type or event list and for an event without
\* metadata, with aggregate_nonce 0, with an empty event_id or with a
\* non-empty aggregate_id or aggregate_type that is not the request's;
\* PermissionDenied for an event with a non-empty tenant_id that is not the
\* request's
DefectKinds(r) ==
    (IF \/ r.aggregate_id = <<>> \/ r.aggregate_type = "" \/ r.events = <<>>
        \/ \E i \in 1..Len(r.events) :
                LET e == r.events[i]
                IN  \/ ~e.has_meta
                    \/ e.aggregate_nonce = 0
                    \/ e.event_id = <<>>
                    \/ e.aggregate_id # <<>> /\ e.aggregate_id # r.aggregate_id
                    \/ e.aggregate_type # "" /\ e.aggregate_type # r.aggregate_type
     THEN {"Invalid"} ELSE {})
    \cup (IF \E i \in 1..Len(r.events) :
                LET e == r.events[i]
                IN  e.has_meta /\ e.tenant_id # "" /\ e.tenant_id # r.tenant_id
          THEN {"PermissionDenied"} ELSE {})

\* C13: an append (with a tenant_id) whose request has one of these defects
\* returns in its first step, with the error kind that goes with the defect
\* (with one of them when the request has defects of both kinds), and that
\* step leaves the stores, the locks, the sequence and the transactions as
\* they were.
C13_RejectsBeforeState ==
    [][\A p \in Appenders :
        (/\ pc[p] = "idle" /\ pc'[p] # "idle"
         /\ req'[p].tenant_id # ""
         /\ DefectKinds(req'[p]) # {})
        => /\ pc'[p] = "return"
           /\ res'[p].kind \in DefectKinds(req'[p])
           /\ res'[p] = Err(res'[p].kind)
           /\ StoreUnchanged
           /\ UNCHANGED <<streams_lock, idempotency_lock, pg_row_lock, pg_seq, tx_events>>]_vars
\* an append of two events, the second with the tenant_id of another tenant,
\* has returned PermissionDenied while the aggregate holds an event
C13_Witness ==
    \E p \in Appenders :
        /\ pc[p] = "return" /\ res[p] = Err("PermissionDenied")
        /\ Len(req[p].events) = 2
        /\ req[p].events[2].tenant_id # req[p].tenant_id
        /\ LastOf(req[p]).nonce >= 1
\* request r carries an event_id twice, or one that another event of its
\* tenant among the committed ones carries
DuplicateEventId(r, committed) ==
    \/ \E i, j \in 1..Len(r.events) : i # j /\ r.events[i].event_id = r.events[j].event_id
    \/ \E i \in 1..Len(r.events) : \E e \in committed :
            /\ e.tenant_id = r.tenant_id
            /\ e.event_id = r.events[i].event_id
            /\ ~(e.aggregate_id = r.aggregate_id
                    /\ e.aggregate_nonce = r.events[i].aggregate_nonce)

\* C14: no two committed events of one tenant carry the same event_id, and an
\* append that passes normalization and carries an event_id twice, or one
\* that another committed event of its tenant carries, returns AlreadyExists;
\* on both engines.
C14_EventIdUnique ==
    /\ [](\A e1, e2 \in Committed :
            (e1.tenant_id = e2.tenant_id /\ e1.event_id = e2.event_id) => e1 = e2)
    /\ [][\A p \in Appenders :
            (/\ pc[p] # "return" /\ pc'[p] = "return"
             /\ Normalizes(req'[p])
             /\ DuplicateEventId(req'[p], Committed'))
            => res'[p].kind = "AlreadyExists"]_vars
\* C15: every event a step of an append commits carries the tenant_id, the
\* aggregate_id and the aggregate_type of the request of that append, also
\* when the client left those fields of the event empty; it is an event of
\* the request (event_id, aggregate_nonce, payload), and its content_type is
\* the client's, or "application/octet-stream" when the client's was empty.
\* On both engines.
C15_MetadataCoherence ==
    [][\A p \in Appenders :
        StepOf(p) =>
            \A e \in Committed' \ Committed :
                /\ e.tenant_id = req[p].tenant_id
                /\ e.aggregate_id = req[p].aggregate_id
                /\ e.aggregate_type = req[p].aggregate_type
                /\ \E i \in 1..Len(req[p].events) :
                        LET c == req[p].events[i]
                        IN  /\ e.event_id = c.event_id
                            /\ e.aggregate_nonce = c.aggregate_nonce
                            /\ e.payload = c.payload
                            /\ e.content_type = IF c.content_type = ""
                                                THEN "application/octet-stream"
                                                ELSE c.content_type]_vars
\* the store holds an event whose metadata the client left empty and an
\* event with a content_type of the client
C15_Witness ==
    \E p \in Appenders : \E e1, e2 \in Committed :
        /\ pc[p] = "return" /\ res[p].kind = "Ok"
        /\ req[p].events[1].tenant_id = "" /\ req[p].events[1].content_type = ""
        /\ e1.event_id = req[p].events[1].event_id
        /\ e1.tenant_id = req[p].tenant_id
        /\ e1.content_type = "application/octet-stream"
        /\ e2.content_type = "application/json"
\* C16: in the in-memory engine the fan-out neither blocks nor changes an
\* append: an append that has committed can always take its next send,
\* whether or not a receiver exists and whether or not a receiver already
\* holds as many events as the channel retains; a send leaves the streams,
\* the global log, next_global and the idempotency table as the commit left
\* them, and the call returns the Ok response computed at the commit.
C16_FanOutIndependent ==
    /\ [](backend = "memory" =>
            \A p \in Appenders : pc[p] = "publish" => ENABLED AppendPublish(p))
    /\ [][\A p \in Appenders :
            (backend = "memory" /\ pc[p] = "publish" /\ StepOf(p))
            => /\ UNCHANGED <<streams, all, next_global, idempotency>>
               /\ res[p].kind = "Ok"
               /\ res'[p] = res[p]
               /\ pc'[p] \in {"publish", "return"}]_vars
\* an append has returned Ok after a send that found the receiver holding as
\* many events as the channel retains: the receiver has lost an event
C16_Witness ==
    \E p \in Appenders : \E s \in Subscribers :
        /\ backend = "memory"
        /\ pc[p] = "return" /\ res[p].kind = "Ok"
        /\ rx[s] # <<>> /\ IsLagged(Head(rx[s]))
        /\ Len(rx[s]) = Capacity + 1
        /\ rx[s][Len(rx[s])].global_nonce = res[p].response.last_global_nonce

\* ------------------------------------------------------------------ properties of read_stream

\* the aggregate a read asks for
KeyOfRead(rr) == StreamKey(rr.tenant_id, rr.aggregate_id)
\* the committed events of aggregate k in the order they were appended: the
\* order of the stream's vector, the order of the rows' global_nonce
AppendedOrder(k) == IF backend = "memory" THEN streams[k] ELSE OrderByGlobalNonce(RowsOf(k))
\* the step in which a read_stream call is answered
Reads == rd = NoRead /\ rd' # NoRead

\* C17: an append that commits adds its events, in the order of the request
\* and with the payloads of the request, after the events its aggregate
\* holds; and a forward read_stream from aggregate_nonce 1 with max_count N
\* of an aggregate that holds N >= 1 events returns exactly these N events in
\* the order they were appended, with aggregate_nonce 1..N, on both engines.
C17_ForwardReadsAll ==
    [][/\ \/ UNCHANGED <<backend, streams, pg_events>>
          \/ \E p \in Appenders :
                LET k == StreamKey(req[p].tenant_id, req[p].aggregate_id)
                    old == AppendedOrder(k)
                    new == AppendedOrder(k)'
                    n == Len(req[p].events)
                IN  /\ StepOf(p)
                    /\ \A o \in StreamKeys \ {k} : AppendedOrder(o)' = AppendedOrder(o)
                    /\ Len(new) = Len(old) + n
                    /\ IsPrefix(old, new)
                    /\ \A j \in 1..n :
                        /\ new[Len(old) + j].payload = req[p].events[j].payload
                        /\ new[Len(old) + j].event_id = req[p].events[j].event_id
                        /\ new[Len(old) + j].aggregate_nonce = Len(old) + j
       /\ (/\ Reads
           /\ rd'.req.forward
           /\ rd'.req.from_aggregate_nonce = 1
           /\ rd'.req.max_count >= 1
           /\ rd'.req.max_count = Len(AppendedOrder(KeyOfRead(rd'.req))))
          => /\ rd'.resp.kind = "Ok"
             /\ rd'.resp.events = AppendedOrder(KeyOfRead(rd'.req))
             /\ \A i \in 1..rd'.req.max_count :
                    rd'.resp.events[i].aggregate_nonce = i]_vars
\* a forward read from 1 with max_count 3 has returned the three events two
\* appenders appended to one aggregate in batches of one and of two events
C17_Witness ==
    /\ rd # NoRead
    /\ rd.req.forward /\ rd.req.from_aggregate_nonce = 1 /\ rd.req.max_count = MaxGlobal
    /\ Len(rd.resp.events) = MaxGlobal
    /\ rd.resp.events = AppendedOrder(KeyOfRead(rd.req))
    /\ rd.resp.events[1].payload # rd.resp.events[2].payload
    /\ rd.resp.events[2].payload = rd.resp.events[3].payload
    /\ rd.resp.events[2].event_id # rd.resp.events[3].event_id

\* the first m items of q
FirstN(q, m) == IF m >= Len(q) THEN q ELSE SubSeq(q, 1, m)
\* the events of aggregate k with aggregate_nonce <= f, highest nonce first
Descending(k, f) == Reverse(SelectSeq(AppendedOrder(k), LAMBDA e : e.aggregate_nonce <= f))

\* C18: a backward read_stream from aggregate_nonce f >= 1 with max_count
\* m > 0 returns the first m of the aggregate's events with nonce <= f taken
\* in descending nonce order, and its next_from_aggregate_nonce is one less
\* than the lowest nonce returned (0 when the page reaches nonce 1), on both
\* engines.
C18_BackwardRead ==
    [][(/\ Reads
        /\ ~rd'.req.forward
        /\ rd'.req.from_aggregate_nonce >= 1
        /\ rd'.req.max_count > 0)
       => LET want == FirstN(Descending(KeyOfRead(rd'.req), rd'.req.from_aggregate_nonce),
                             rd'.req.max_count)
          IN  /\ rd'.resp.kind = "Ok"
              /\ rd'.resp.events = want
              /\ want # <<>> =>
                    rd'.resp.next_from_aggregate_nonce = want[Len(want)].aggregate_nonce - 1]_vars

\* the nonces of the events a page holds
NoncesOf(page) == {page[i].aggregate_nonce : i \in 1..Len(page)}
\* the aggregate holds an event beyond the page of response resp to request
\* rr in the direction of rr: above every returned nonce when forward, below
\* every returned nonce when backward, and, when the page is empty, at or
\* beyond the start
MoreBeyond(rr, resp) ==
    LET start == IF rr.from_aggregate_nonce <= 1 THEN 1 ELSE rr.from_aggregate_nonce
        held == NoncesOf(AppendedOrder(KeyOfRead(rr)))
        got == NoncesOf(resp.events)
    IN  IF rr.forward
        THEN \E n \in held : n >= start /\ \A g \in got : n > g
        ELSE \E n \in held : n <= start /\ \A g \in got : n < g

\* C19: in every read_stream response, of either direction and either engine,
\* is_end is true exactly when the aggregate holds no event beyond the
\* returned page in the requested direction.
C19_IsEnd ==
    [][(Reads /\ rd'.resp.kind = "Ok")
       => (rd'.resp.is_end <=> ~MoreBeyond(rd'.req, rd'.resp))]_vars

\* the events of the aggregate of request rr from its start nonce on in its
\* direction
FromStart(rr) ==
    LET start == IF rr.from_aggregate_nonce <= 1 THEN 1 ELSE rr.from_aggregate_nonce
    IN  {e \in Range(AppendedOrder(KeyOfRead(rr))) :
            IF rr.forward THEN e.aggregate_nonce >= start ELSE e.aggregate_nonce <= start}

\* C20: a read_stream with max_count 0 returns every event of the aggregate
\* from the start nonce in the requested direction, each once, on both
\* engines.
C20_ZeroIsUnlimited ==
    [][(Reads /\ rd'.resp.kind = "Ok" /\ rd'.req.max_count = 0)
       => /\ Range(rd'.resp.events) = FromStart(rd'.req)
          /\ Len(rd'.resp.events) = Cardinality(FromStart(rd'.req))]_vars

\* ------------------------------------------------------------------ properties of subscribe

\* event e satisfies the filter of subscription request sr
Matches(sr, e) ==
    /\ e.tenant_id = sr.tenant_id
    /\ e.global_nonce >= sr.from_global_nonce
    /\ (sr.aggregate_id_prefix = <<>> \/ StartsWith(e.aggregate_id, sr.aggregate_id_prefix))
\* the subscription of s is past its start: the receiver exists (in-memory),
\* the catch-up query has run (relational)
Live(s) == IF backend = "memory" THEN sub_pc[s] = "open" ELSE sub_pc[s] \in {"replay", "live"}
\* the events the stream of s has still to look at: the rest of the replay
\* items, and the events its receiver holds (in-memory) or the rows of the
\* tenant after its cursor (relational)
Awaited(s) ==
    {replay_items[s][i] : i \in (replay_idx[s] + 1)..Len(replay_items[s])}
    \cup (IF backend = "memory"
          THEN {rx[s][i] : i \in {j \in 1..Len(rx[s]) : ~IsLagged(rx[s][j])}}
          ELSE {e \in pg_events : e.global_nonce > cursor[s]})
\* the events s has emitted
EmittedBy(s) == {emitted[s][i] : i \in 1..Len(emitted[s])}
\* the events that become visible to subscriptions in this step: the event
\* sent to the channel (in-memory), the rows committed (relational)
Arriving ==
    IF backend = "memory"
    THEN {assigned_events[p][Len(assigned_events[p]) - unsent[p] + 1] :
            p \in {q \in Appenders : pc[q] = "publish" /\ unsent[q] > 0 /\ unsent'[q] # unsent[q]}}
    ELSE pg_events' \ pg_events

\* C21: every event a subscription has emitted, from the replay or live, has
\* global_nonce >= from_global_nonce and an aggregate_id that starts with the
\* prefix of the request; and while a subscription is live, an event that
\* arrives (is sent, is committed) and matches the filter is emitted: it is
\* then among the events the stream has still to look at, and a matching
\* event leaves these only by being emitted.
C21_FilterAndDelivery ==
    /\ [](\A s \in Subscribers : \A e \in EmittedBy(s) :
            /\ e.global_nonce >= sub_req[s].from_global_nonce
            /\ StartsWith(e.aggregate_id, sub_req[s].aggregate_id_prefix))
    /\ [][\A s \in Subscribers :
            Live(s) =>
                /\ \A e \in Arriving : Matches(sub_req[s], e) => e \in Awaited(s)'
                /\ \A e \in Awaited(s) :
                        Matches(sub_req[s], e) => e \in Awaited(s)' \cup EmittedBy(s)']_vars

\* C22: in the relational engine the polling cursor of a subscription only
\* moves past events that were emitted: every committed event that matches
\* the filter of a live subscription has been emitted or is still to be
\* looked at (it is a pending replay item or lies after the cursor), and no
\* event is emitted twice.
C22_CursorPassesOnlyEmitted ==
    backend = "postgres" =>
        \A s \in Subscribers :
            Live(s) =>
                /\ \A e \in pg_events :
                        Matches(sub_req[s], e) => e \in EmittedBy(s) \cup Awaited(s)
                /\ \A i, j \in 1..Len(emitted[s]) : i # j => emitted[s][i] # emitted[s][j]

\* the stream of s takes the Lagged its receiver holds: events were lost to it
TakesLagged(s) ==
    /\ backend = "memory"
    /\ sub_pc[s] = "open"
    /\ rx[s] # <<>> /\ IsLagged(Head(rx[s]))
    /\ rx'[s] = Tail(rx[s])

\* C23: in the in-memory engine a subscription whose receiver fell behind so
\* that events were lost to it does not go on silently: when its stream
\* comes to the Lagged of the receiver, the subscription is closed or the
\* stream yields an error item.
C23_OverflowIsSignalled ==
    [][\A s \in Subscribers :
            TakesLagged(s)
            => \/ sub_pc'[s] # "open"
               \/ /\ Len(emitted'[s]) = Len(emitted[s]) + 1
                  /\ IsLagged(emitted'[s][Len(emitted'[s])])]_vars

\* ------------------------------------------------------------------ properties of the locks

\* the events of the batch of p's request that a page holds
SeenOf(p, page) ==
    {i \in 1..Len(req[p].events) :
        \E j \in 1..Len(page) :
            /\ page[j].event_id = req[p].events[i].event_id
            /\ page[j].aggregate_nonce = req[p].events[i].aggregate_nonce
            /\ page[j].payload = req[p].events[i].payload}
\* the append of p has written its batch: the commit loop is over
Written(p) == pc[p] \in {"record", "publish", "return"} /\ res[p].kind = "Ok"

\* C24: in the in-memory engine a read_stream of a whole aggregate, at
\* whatever moment it runs, holds all events of the batch of an append to
\* that aggregate (one that has not failed) or none of them, and it holds all of them once the append
\* has left its commit loop, so also when the append has returned Ok before
\* the read began.
C24_ReadSeesWholeBatches ==
    [][(Reads /\ backend = "memory" /\ rd'.resp.kind = "Ok")
       => \A p \in Appenders :
            (/\ KeyOfRead(rd'.req) = StreamKey(req[p].tenant_id, req[p].aggregate_id)
             /\ ~Failed(p))
            => /\ SeenOf(p, rd'.resp.events) \in {{}, 1..Len(req[p].events)}
               /\ Written(p) => SeenOf(p, rd'.resp.events) = 1..Len(req[p].events)]_vars
\* a read has run while an append of two events to its aggregate was between
\* two turns of its commit loop, and a read holds both events of an append
\* that has returned Ok
C24_Witness ==
    /\ backend = "memory"
    /\ rd # NoRead /\ rd.resp.kind = "Ok"
    /\ \E p \in Appenders :
        /\ pc[p] = "return" /\ res[p].kind = "Ok"
        /\ Len(req[p].events) = MaxBatch
        /\ KeyOfRead(rd.req) = StreamKey(req[p].tenant_id, req[p].aggregate_id)
        /\ SeenOf(p, rd.resp.events) = 1..MaxBatch

\* ------------------------------------------------------------------ the two engines side by side

\* C25: after every sequential history of append calls given to both
\* engines, the two engines have returned the same result for the last
\* append (the same error kind and detail, or the same response), and every
\* read_stream request gets the same response from both (the same error
\* kind, or the same events in the same order, is_end and
\* next_from_aggregate_nonce).
C25_EnginesAgree ==
    /\ (pc[InMemoryCall] = "return" /\ pc[PostgresCall] = "return")
        => res[InMemoryCall] = res[PostgresCall]
    /\ (\A p \in Appenders : pc[p] = "idle")
        => \A rr \in ReadStreamRequests : read_stream(rr) = pg_read_stream(rr)

\* ------------------------------------------------------------------ the aggregate's last nonce

\* the last aggregate_nonce and global_nonce of aggregate k in the engine in use
AggregateLast(k) == LastOf([tenant_id |-> k[1], aggregate_id |-> k[2]])
\* the call of p gets the result Ok in this step
Succeeds(p) == pc[p] # "return" /\ res[p].kind # "Ok" /\ res'[p].kind = "Ok"

\* C26: in every step of either engine that changes the last aggregate_nonce
\* of an aggregate from n to m, an append to that aggregate with
\* expected_aggregate_nonce = n and k >= 1 events gets its result Ok in that
\* step, m = n + k (so the nonce never decreases), and the response carries
\* last_aggregate_nonce = m and last_global_nonce = the global_nonce of the
\* committed event of the aggregate with aggregate_nonce m, the last of the
\* batch.
C26_NonceAdvancesByAppend ==
    [][\A k \in StreamKeys :
        LET n == AggregateLast(k).nonce
            m == AggregateLast(k)'.nonce
        IN  m # n =>
            \E p \in Appenders :
                /\ Succeeds(p)
                /\ StreamKey(req[p].tenant_id, req[p].aggregate_id) = k
                /\ req[p].expected_aggregate_nonce = n
                /\ Len(req[p].events) >= 1
                /\ m = n + Len(req[p].events)
                /\ res'[p].response.last_aggregate_nonce = m
                /\ \E e \in Committed' \ Committed :
                    /\ StreamKey(e.tenant_id, e.aggregate_id) = k
                    /\ e.aggregate_nonce = m
                    /\ e.global_nonce = res'[p].response.last_global_nonce
                    /\ \A o \in Committed' \ Committed : o.global_nonce <= e.global_nonce]_vars
\* an append of two events with expected_aggregate_nonce 1 has returned Ok
\* with last_aggregate_nonce 3, and the aggregate's last nonce is 3
C26_Witness ==
    \E p \in Appenders :
        /\ pc[p] = "return" /\ res[p].kind = "Ok"
        /\ req[p].expected_aggregate_nonce = 1
        /\ Len(req[p].events) = 2
        /\ res[p].response.last_aggregate_nonce = 3
        /\ LastOf(req[p]).nonce = 3

\* ------------------------------------------------------------------ the tenant of a request

\* a call of p begins in this step
Begins(p) == pc[p] = "idle" /\ pc'[p] # "idle"

\* C27: on either engine an append with an empty tenant_id returns
\* Unauthenticated in its first step and leaves the stores, the open
\* transactions and the receivers as they were; a read_stream with an empty
\* tenant_id returns Unauthenticated; and no subscription with an empty
\* tenant_id is ever served: subscribe with an empty tenant_id takes no
\* snapshot of the log, runs no query and opens no stream.
C27_TenantRequired ==
    /\ [](\A s \in Subscribers : sub_pc[s] # "none" => sub_req[s].tenant_id # "")
    /\ [][/\ \A p \in Appenders :
                (Begins(p) /\ req'[p].tenant_id = "")
                => /\ pc'[p] = "return"
                   /\ res'[p] = Err("Unauthenticated")
                   /\ StoreUnchanged
                   /\ UNCHANGED <<tx_events, pg_seq, rx, streams_lock, idempotency_lock>>
          /\ (Reads /\ rd'.req.tenant_id = "")
                => rd'.resp = ReadError("Unauthenticated")]_vars

\* ------------------------------------------------------------------ appends that fail

\* what read_stream, subscribers and later appends can see of the stores
\* stays as it is: the streams, the global log, the idempotency table, the
\* tables of the relational engine, and what the receivers hold
NothingWritten ==
    UNCHANGED <<streams, all, idempotency, pg_events, pg_aggregates, pg_idempotency, rx>>
\* the call of p is in progress
InProgress(p) == pc[p] \notin {"idle", "return"}

\* C28: on either engine (a) the step in which an append gets an error
\* result writes nothing; (b) every step of an append that writes something
\* (pushes or inserts events, writes an idempotency record, sends to the
\* receivers) is a step of a call whose result is Ok from that step on, and a
\* call that has its Ok result keeps it until it returns, so a call that
\* returns an error has written nothing; (c) hence after a failed append with
\* idempotency key k there is a record for k only if there was one when the
\* call began: the engine holds no record whose response is not the response
\* of a committed batch.
C28_FailedAppendWritesNothing ==
    /\ [](\A r \in FrameRequests("a1") \cup FrameRequests("a2") :
            RecordOf(r).present =>
                \E e \in Committed :
                    /\ StreamKey(e.tenant_id, e.aggregate_id) = StreamKey(r.tenant_id, r.aggregate_id)
                    /\ e.global_nonce = RecordOf(r).response.last_global_nonce
                    /\ e.aggregate_nonce = RecordOf(r).response.last_aggregate_nonce)
    /\ [][/\ \A p \in Appenders :
                /\ (pc[p] # "return" /\ pc'[p] = "return" /\ res'[p].kind # "Ok")
                        => NothingWritten
                /\ (InProgress(p) /\ res[p].kind = "Ok") => res'[p] = res[p]
          /\ ~NothingWritten =>
                \E p \in Appenders :
                    /\ InProgress(p) /\ StepOf(p)
                    /\ res'[p].kind = "Ok"]_vars
\* an append with idempotency key k has returned Concurrency or Invalid,
\* events are committed and held by a receiver, and there is no record for k
C28_Witness ==
    \E p \in Appenders :
        /\ Failed(p) /\ res[p].kind \in {"Concurrency", "Invalid"}
        /\ req[p].idempotency_key = "k"
        /\ ~RecordOf(req[p]).present
        /\ Committed # {}
        /\ backend = "memory" => \E s \in Subscribers : rx[s] # <<>>

\* ------------------------------------------------------------------ paging

\* more calls than a paging of the fullest store needs: one per event and
\* one for an empty last page
MaxPages == MaxGlobal + 2
\* a client that pages through aggregate k: read_stream from `from` with
\* max_count max, then from the response's next_from_aggregate_nonce, until a
\* response has is_end (done) or the calls are used up; the events of the
\* pages in the order received
RECURSIVE Paging(_, _, _, _, _)
Paging(k, fwd, max, from, calls) ==
    IF calls = 0 THEN [events |-> <<>>, done |-> FALSE]
    ELSE LET resp == ReadOf(ReadStreamRequest(k[1], k[2], from, max, fwd))
         IN  IF resp.is_end THEN [events |-> resp.events, done |-> TRUE]
             ELSE LET rest == Paging(k, fwd, max, resp.next_from_aggregate_nonce, calls - 1)
                  IN  [events |-> resp.events \o rest.events, done |-> rest.done]
\* the paging of the claim: forward from 1, backward from the last nonce
PagingOf(k, fwd, max) ==
    Paging(k, fwd, max, IF fwd THEN 1 ELSE Len(AppendedOrder(k)), MaxPages)

\* C29: in every reachable state of either engine, for every aggregate,
\* direction and max_count in 1..MaxGlobal, the paging ends with a response
\* that has is_end within MaxPages calls and the events of its pages are
\* the events of the aggregate, each once, in appended order (forward) or in
\* the reverse of it (backward).
C29_PagingLossless ==
    \A k \in StreamKeys : \A fwd \in BOOLEAN : \A max \in 1..MaxGlobal :
        /\ PagingOf(k, fwd, max).done
        /\ PagingOf(k, fwd, max).events =
                IF fwd THEN AppendedOrder(k) ELSE Reverse(AppendedOrder(k))

\* ------------------------------------------------------------------ the order of the locks

\* the locks the call of p holds
HoldsStreams(p) == streams_lock = p
HoldsIdempotency(p) == idempotency_lock = p
HoldsAll(p) == all_lock = p
HoldsNone(p) == ~HoldsStreams(p) /\ ~HoldsIdempotency(p) /\ ~HoldsAll(p)

\* C30: in the in-memory engine, with appends, reads and a subscribe call
\* running beside each other, (a) a call that is not in progress, or that
\* has returned or is sending to the channel, holds no lock: every return,
\* the early error returns included, releases the locks; (b) append takes
\* streams while it holds nothing, idempotency only while it holds streams
\* and not all, and all (with next_global) only while it holds streams, and
\* a read_stream or subscribe step takes and keeps no lock; (c) whenever a
\* call is in progress some call in progress can take its next step; and
\* (d) under fair scheduling every append in progress returns, every read is
\* handed to its caller and every subscribe call returns its stream.
C30_NoDeadlock ==
    /\ [](/\ \A p \in Appenders : ~InProgress(p) \/ pc[p] = "publish" => HoldsNone(p)
          /\ (\E p \in Appenders : InProgress(p))
                => \E p \in Appenders : InProgress(p) /\ ENABLED AppendStepL(p))
    /\ [][/\ \A p \in Appenders :
                /\ (HoldsStreams(p)' /\ ~HoldsStreams(p)) => HoldsNone(p)
                /\ (HoldsIdempotency(p)' /\ ~HoldsIdempotency(p))
                        => HoldsStreams(p) /\ ~HoldsAll(p)
                /\ (HoldsAll(p)' /\ ~HoldsAll(p)) => HoldsStreams(p)
          /\ (Reads \/ \E s \in Subscribers : sub_pc'[s] # sub_pc[s])
                => UNCHANGED <<streams_lock, idempotency_lock, pc>>]_vars
    /\ \A p \in Appenders : InProgress(p) ~> pc[p] = "return"
    /\ (rd # NoRead) ~> (rd = NoRead)
    /\ \A s \in Subscribers : (sub_pc[s] = "snapshot") ~> (sub_pc[s] = "open")
\* an append that holds streams waits for the idempotency lock, which an
\* append that has left its commit loop still holds
C30_Witness ==
    \E p, q \in Appenders :
        /\ p # q
        /\ HoldsStreams(p) /\ pc[p] = "idempotency"
        /\ HoldsIdempotency(q) /\ pc[q] = "record"

====
